---------------------------- MODULE Spec2Model ----------------------------
(***************************************************************************)
(* Study-mode engine of the subtitle player: SrsController (line           *)
(* selection, test lifecycle, answer validation) together with the part of *)
(* StudyOverlay that forwards the user's actions.                          *)
(*                                                                         *)
(* Strings are sequences of UTF-16 code units, token positions are 1-based *)
(* (position p here is index p-1 in the source).  An async method is cut   *)
(* at the awaits that really suspend (tokenizer, settings, repositories);  *)
(* the code between two such awaits is one action.  Consecutive awaits of  *)
(* one method on the same service (tokenize then score, tokenize then      *)
(* select) are one wait.  updateSettings reloads the settings the engine   *)
(* already runs with, so that only the tokenizer can change in it.         *)
(*                                                                         *)
(* The video element is its paused flag and its position in seconds.  The  *)
(* requestAnimationFrame loops of _pauseAtSubtitleEnd and _replay are a    *)
(* set; a frame runs all of them, and frames are so frequent that no       *)
(* second of playback passes while a loop is due.                          *)
(***************************************************************************)
EXTENDS Integers, Sequences, FiniteSets, Bags, TLC

(***************************************************************************)
(* Bounds of the model.                                                    *)
(***************************************************************************)
NumLines == 2
MaxLineCount == 4
MaxNow == 2
MaxCalls == 1
MaxCards == 2
MaxOverlap == 2
MaxFrequency == 3

Lines == 1..NumLines
\* The videos the page may switch between, and a video with longer lines.
Videos == {"a", "b"}
LongVideo == "v"
AllVideos == Videos \cup {LongVideo}

(***************************************************************************)
(* Program constants.                                                      *)
(***************************************************************************)
KatakanaFirst == 12449
KatakanaLast == 12534
KanaOffset == 96
MaxBlanks == 3

(***************************************************************************)
(* Strings.                                                                *)
(***************************************************************************)
Ch == [sp |-> 32, isp |-> 12288, maru |-> 12290,
       hiDe |-> 12391, hiSu |-> 12377, hiGa |-> 12364, hiKu |-> 12367,
       hiSe |-> 12379, hiI |-> 12356,
       kaGa |-> 12460, kaKu |-> 12463, kaSe |-> 12475, kaI |-> 12452,
       kaDe |-> 12487, kaSu |-> 12473, kaGe |-> 12466, kaMu |-> 12512,
       chouon |-> 12540, gaku |-> 23398, sei |-> 29983, watashi |-> 31169,
       latinX |-> 120]

WhiteSpace == {Ch.sp, Ch.isp}

\* A trim that removes nothing.
NoTrim(s) == s

\* String.prototype.trim
RECURSIVE TrimLeft(_)
TrimLeft(s) ==
    IF s # <<>> /\ Head(s) \in WhiteSpace THEN TrimLeft(Tail(s)) ELSE s

RECURSIVE TrimRight(_)
TrimRight(s) ==
    IF s # <<>> /\ s[Len(s)] \in WhiteSpace
    THEN TrimRight(SubSeq(s, 1, Len(s) - 1))
    ELSE s

Trim(s) == TrimRight(TrimLeft(s))

\* str.replace(/[\u30A1-\u30F6]/g, c => fromCharCode(c - 0x60))
KatakanaToHiragana(s) ==
    [i \in DOMAIN s |->
        IF s[i] >= KatakanaFirst /\ s[i] <= KatakanaLast
        THEN s[i] - KanaOffset
        ELSE s[i]]

\* Array.prototype.join('') of a sequence of strings
RECURSIVE Join(_)
Join(ss) == IF ss = <<>> THEN <<>> ELSE Head(ss) \o Join(Tail(ss))

\* Array.prototype.flat() of TokenPart[][]
RECURSIVE Flat(_)
Flat(groups) == IF groups = <<>> THEN <<>> ELSE Head(groups) \o Flat(Tail(groups))

(***************************************************************************)
(* Tokens (TokenPart).  An absent reading is the empty string, an absent   *)
(* wordType is "none".                                                     *)
(***************************************************************************)
Tok(text, reading, pos, wordType) ==
    [text |-> text, reading |-> reading, pos |-> pos, wordType |-> wordType]

TGakusei == Tok(<<Ch.gaku, Ch.sei>>, <<Ch.kaGa, Ch.kaKu, Ch.kaSe, Ch.kaI>>, "noun", "KNOWN")
TDesu    == Tok(<<Ch.hiDe, Ch.hiSu>>, <<Ch.kaDe, Ch.kaSu>>, "aux", "KNOWN")
TMaru    == Tok(<<Ch.maru>>, <<Ch.maru>>, "kigou", "KNOWN")
TGame    == Tok(<<Ch.kaGe, Ch.chouon, Ch.kaMu>>, <<Ch.kaGe, Ch.chouon, Ch.kaMu>>, "noun", "none")
TWatashi == Tok(<<Ch.watashi>>, <<>>, "noun", "KNOWN")
TUnknown == Tok(<<Ch.latinX>>, <<Ch.latinX>>, "noun", "UNKNOWN")
TSpace   == Tok(<<Ch.sp>>, <<Ch.sp>>, "kigou", "KNOWN")

\* What the tokenizer returns for the text of subtitle line idx of video src.
LineGroups(src, idx) ==
    IF idx % 2 = 0 THEN << <<TUnknown, TGame>>, <<TMaru>> >>
    ELSE IF src = LongVideo THEN << <<TWatashi>>, <<TMaru>>, <<TGakusei, TDesu>> >>
    ELSE << <<TGakusei>>, <<TMaru>> >>

\* Outcomes of Tokenizer.tokenize(text of line idx): the groups, or a throw.
\* A backend may also answer with no token or with punctuation only.
TokenizeOutcomes(src, idx) ==
    { [threw |-> FALSE, groups |-> LineGroups(src, idx)],
      [threw |-> FALSE, groups |-> <<>>],
      [threw |-> FALSE, groups |-> << <<TMaru>>, <<TSpace>> >>],
      [threw |-> TRUE,  groups |-> <<>>] }

\* A filter that lets the tokens of unknown word type through.
IsTestableOrUnknown(t) ==
    /\ t.pos # "kigou"
    /\ Trim(t.text) # <<>>

\* Tokens worth testing: no symbol, non-blank text, word type absent or KNOWN.
IsTestable(t) ==
    /\ t.pos # "kigou"
    /\ Trim(t.text) # <<>>
    /\ t.wordType \in {"none", "KNOWN"}

GetTestableIndices(tokens) == {p \in DOMAIN tokens : IsTestable(tokens[p])}

\* The ascending sequence of the elements of a set of positions.
RECURSIVE SortedSeq(_)
SortedSeq(S) ==
    IF S = {} THEN <<>>
    ELSE LET m == CHOOSE x \in S : \A y \in S : x <= y
         IN <<m>> \o SortedSeq(S \ {m})

\* TokenSelector.selectTokensToBlank: up to maxBlanks testable positions,
\* chosen by the selector (at random or by knowledge); possibly none.
SelectTokensToBlank(tokens) ==
    {SortedSeq(S) : S \in {X \in SUBSET GetTestableIndices(tokens) : Cardinality(X) <= MaxBlanks}}

(***************************************************************************)
(* State.                                                                  *)
(***************************************************************************)
VARIABLES
    \* settings (SrsController fields written by updateSettings)
    frequency, lineSelectionStrategy, rateLimitSeconds, trackResults,
    studyDecks, ankiApi,
    \* SrsController
    enabled, lineCount, tokenizer, currentSubtitle, currentSession,
    lineStatusCache, testLineIndices, currentDisplayState, testCompleted,
    answerSubmitted,
    \* StudyOverlay
    overlayVisible, overlayState,
    \* Binding: video element, subtitle controller, mobile overlay
    videoSrc, forceHideSubtitles, forceHide,
    \* the video element: paused, currentTime (in seconds), and the
    \* requestAnimationFrame loops that wait for the end of a line
    paused, position, frameLoops,
    \* the clock (Date.now(), in seconds), the onSubtitleShown calls and the
    \* submission suspended on an await
    now, calls, submission,
    \* observation: what the last step did, and how often each line's test
    \* was displayed since the session was created (2 stands for "twice or more"),
    \* and the video and line of the test the overlay shows
    lastEvent, sessionShows, shownTest,
    \* KuromojiTokenizer with its workers, and the tokenize calls made on it
    kuromoji,
    \* WatchTimeTracker, its timer and its pending settings checks
    tracker

settingsVars == <<frequency, lineSelectionStrategy, rateLimitSeconds, trackResults,
                  studyDecks, ankiApi>>
hostVars == <<videoSrc, now>>
engineVars == <<frequency, lineSelectionStrategy, rateLimitSeconds, trackResults,
          studyDecks, ankiApi, enabled, lineCount, tokenizer, currentSubtitle,
          currentSession, lineStatusCache, testLineIndices, currentDisplayState,
          testCompleted, answerSubmitted, overlayVisible, overlayState, videoSrc,
          forceHideSubtitles, forceHide, paused, position, frameLoops, now, calls,
          submission, lastEvent, sessionShows, shownTest>>
vars == <<engineVars, kuromoji, tracker>>

MsPerSecond == 1000

\* The times of subtitle line l in milliseconds (subtitle.start, subtitle.end):
\* a line lasts a second and a second lies between two lines.
SubtitleStart(l) == (2 * l - 1) * MsPerSecond
SubtitleEnd(l) == 2 * l * MsPerSecond

\* The video ends with its last line.
MaxPosition == 2 * NumLines

\* The frame loops of _pauseAtSubtitleEnd(endTimeMs) and of _replay.
PauseLoop(endTimeMs) == [kind |-> "pauseAtSubtitleEnd", endTimeMs |-> endTimeMs]
ReplayLoop == [kind |-> "replay", endTimeMs |-> 0]

\* An absent LineTestInfo, StudyTestDisplayState, VideoSession, subtitle.
NoInfo == [subtitleIndex |-> 0, status |-> "undefined", tokens |-> <<>>, blankedIndices |-> <<>>]
NoState == [defined |-> FALSE, tokens |-> <<>>, blankedIndices |-> <<>>, userAnswers |-> <<>>,
            showingResult |-> FALSE, resultCorrect |-> FALSE, answerResults |-> <<>>]
NoSession == [videoSrc |-> "null", studiedLineIndices |-> {}, cardsShownCount |-> 0, lastCardTime |-> 0]
NoSubtitle == 0
NoTest == [src |-> "null", index |-> NoSubtitle]
NoSubmission == [pc |-> "idle", tokens |-> <<>>, blankedIndices |-> <<>>, answers |-> <<>>,
                 answerResults |-> <<>>, tokenizerLog |-> <<>>, writes |-> <<>>]

\* No line was scored.
NoScoring == [groups |-> <<>>, lookups |-> <<>>, threw |-> FALSE, score |-> 0]

\* The controller, overlay and host fields the handlers write, as one record.
Cur ==
    [enabled |-> enabled, lineCount |-> lineCount, tokenizer |-> tokenizer,
     currentSubtitle |-> currentSubtitle, currentSession |-> currentSession,
     lineStatusCache |-> lineStatusCache, testLineIndices |-> testLineIndices,
     currentDisplayState |-> currentDisplayState, testCompleted |-> testCompleted,
     answerSubmitted |-> answerSubmitted, overlayVisible |-> overlayVisible,
     overlayState |-> overlayState,
     forceHideSubtitles |-> forceHideSubtitles, forceHide |-> forceHide,
     paused |-> paused, position |-> position, frameLoops |-> frameLoops,
     sessionShows |-> sessionShows, shownTest |-> shownTest]

CommitEngine(S) ==
    /\ enabled' = S.enabled
    /\ lineCount' = S.lineCount
    /\ tokenizer' = S.tokenizer
    /\ currentSubtitle' = S.currentSubtitle
    /\ currentSession' = S.currentSession
    /\ lineStatusCache' = S.lineStatusCache
    /\ testLineIndices' = S.testLineIndices
    /\ currentDisplayState' = S.currentDisplayState
    /\ testCompleted' = S.testCompleted
    /\ answerSubmitted' = S.answerSubmitted
    /\ overlayVisible' = S.overlayVisible
    /\ overlayState' = S.overlayState
    /\ forceHideSubtitles' = S.forceHideSubtitles
    /\ forceHide' = S.forceHide
    /\ paused' = S.paused
    /\ position' = S.position
    /\ frameLoops' = S.frameLoops
    /\ sessionShows' = S.sessionShows
    /\ shownTest' = S.shownTest

\* A step of the study engine leaves the tokenizer service and the watch-time
\* tracker alone.
Commit(S) ==
    /\ CommitEngine(S)
    /\ UNCHANGED <<kuromoji, tracker>>

\* What a step reports: the operation, the subtitle (or shown test) it was
\* about, the cached status read on entry, the decision to test, the value
\* returned, why a call returned false, whether a notification was raised.
Event(op) ==
    [op |-> op, index |-> 0, src |-> "null", status |-> "undefined", decided |-> "na",
     returned |-> "na", cause |-> "na", reused |-> FALSE, notified |-> FALSE,
     passed |-> FALSE, submitted |-> NoSubmission, scoring |-> NoScoring]

(***************************************************************************)
(* SrsController: session and cache.                                       *)
(***************************************************************************)
\* getLineStatus: the entry of the line in the cache of the video now playing.
GetLineStatus(S, idx) == S.lineStatusCache[videoSrc][idx]

\* _cacheLineStatus
CacheLineStatus(S, idx, info) ==
    [S EXCEPT !.lineStatusCache[videoSrc][idx] = info]

\* A session that follows the video but keeps what it recorded.
GetOrCreateSessionKeeping(S) ==
    IF S.currentSession.videoSrc = "null" \/ S.currentSession.videoSrc # videoSrc
    THEN [S EXCEPT !.currentSession.videoSrc = videoSrc]
    ELSE S

\* _getOrCreateSession
GetOrCreateSession(S) ==
    IF S.currentSession.videoSrc = "null" \/ S.currentSession.videoSrc # videoSrc
    THEN [S EXCEPT !.currentSession = [videoSrc |-> videoSrc, studiedLineIndices |-> {},
                                       cardsShownCount |-> 0, lastCardTime |-> 0],
                   !.sessionShows = [l \in Lines |-> 0]]
    ELSE S

\* A session update that forgets to record the line.
UpdateSessionForgettingLine(S, idx) ==
    LET S1 == GetOrCreateSession(S)
    IN [S1 EXCEPT !.currentSession.cardsShownCount = @ + 1,
                  !.currentSession.lastCardTime = now * MsPerSecond]

\* _updateSessionOnCardShown
UpdateSessionOnCardShown(S, idx) ==
    LET S1 == GetOrCreateSession(S)
    IN [S1 EXCEPT !.currentSession.studiedLineIndices = @ \cup {idx},
                  !.currentSession.cardsShownCount = @ + 1,
                  !.currentSession.lastCardTime = now * MsPerSecond]

\* A rate limit that never refuses.
RateLimitIgnored(S) == TRUE

\* _isRateLimitSatisfied, on the session _getOrCreateSession returned
IsRateLimitSatisfied(S) ==
    LET session == GetOrCreateSession(S).currentSession
    IN  \/ session.lastCardTime = 0
        \/ now * MsPerSecond - session.lastCardTime >= rateLimitSeconds * MsPerSecond

\* _isPrioritySelectionReady
IsPrioritySelectionReady(S) ==
    S.tokenizer /\ ankiApi /\ Len(studyDecks) > 0

\* A countdown that shows 0 on the lines that are tested.
LinesUntilTestFromZero(isEnabled, freq, count) ==
    IF ~isEnabled \/ freq <= 0 THEN 0
    ELSE (freq - (count % freq)) % freq

\* get linesUntilTest, for the values of _enabled, _frequency and _lineCount
LinesUntilTest(isEnabled, freq, count) ==
    IF ~isEnabled \/ freq <= 0 THEN 0
    ELSE LET remaining == freq - (count % freq)
         IN IF remaining = freq THEN freq ELSE remaining

(***************************************************************************)
(* SrsController: hide, enabled.                                           *)
(***************************************************************************)
\* StudyOverlay.hide
OverlayHide(S) ==
    [S EXCEPT !.overlayVisible = FALSE, !.overlayState = NoState, !.shownTest = NoTest]

\* hide()
Hide(S) ==
    [OverlayHide(S) EXCEPT !.currentSubtitle = NoSubtitle,
                           !.currentDisplayState = NoState,
                           !.testCompleted = FALSE,
                           !.answerSubmitted = FALSE]

\* A switch that keeps the line count when the engine is switched off.
SetEnabledKeepingCount(S, value) ==
    IF value
    THEN [S EXCEPT !.enabled = TRUE]
    ELSE [Hide(S) EXCEPT !.enabled = FALSE, !.testLineIndices = {}]

\* set enabled(value)
SetEnabled(S, value) ==
    IF value
    THEN [S EXCEPT !.enabled = TRUE]
    ELSE [Hide(S) EXCEPT !.enabled = FALSE, !.lineCount = 0, !.testLineIndices = {}]

(***************************************************************************)
(* SrsController._showTest.                                                *)
(***************************************************************************)
NewDisplayState(tokens, blankedIndices) ==
    [defined |-> TRUE, tokens |-> tokens, blankedIndices |-> blankedIndices,
     userAnswers |-> [i \in DOMAIN blankedIndices |-> <<>>],
     showingResult |-> FALSE, resultCorrect |-> FALSE, answerResults |-> <<>>]

\* _showTest from "Cache the test info as incomplete" to "return true",
\* followed by the session update onSubtitleShown makes when it returned true.
DisplayTest(S, idx, tokens, blankedIndices) ==
    LET S1 == CacheLineStatus(S, idx, [subtitleIndex |-> idx, status |-> "incomplete",
                                      tokens |-> tokens, blankedIndices |-> blankedIndices])
        S2 == [S1 EXCEPT !.testCompleted = FALSE,
                         !.currentDisplayState = NewDisplayState(tokens, blankedIndices),
                         !.forceHideSubtitles = TRUE,
                         !.forceHide = TRUE,
                         !.overlayVisible = TRUE,
                         !.overlayState = NewDisplayState(tokens, blankedIndices),
                         !.frameLoops = @ \cup {PauseLoop(SubtitleEnd(idx))},
                         !.shownTest = [src |-> videoSrc, index |-> idx]]
        S3 == UpdateSessionOnCardShown(S2, idx)
    IN [S3 EXCEPT !.sessionShows[idx] = IF @ >= 1 THEN 2 ELSE 1]

\* A _showTest that gives up without removing the pending marker.
AbortKeepingMarker(S, idx) == S

\* _showTest giving up: the pending marker is removed, false is returned.
AbortTest(S, idx) == [S EXCEPT !.testLineIndices = @ \ {idx}]

(***************************************************************************)
(* SrsController.onSubtitleShown.  A suspended call is a record of its     *)
(* subtitle (the video it belongs to and its index), the LineTestInfo it   *)
(* read on entry and the await it is waiting on: "score" (_shouldTestLine),*)
(* "init" (updateSettings in _showTest) or "tokenize" (tokenize and        *)
(* selectTokensToBlank).                                                   *)
(***************************************************************************)
Call(src, idx, existing, pc) == [src |-> src, index |-> idx, existing |-> existing, pc |-> pc]

Suspended(pc) == {c \in BagToSet(calls) : c.pc = pc}

CallEvent(op, idx, existing) ==
    [Event(op) EXCEPT !.index = idx, !.src = videoSrc, !.status = existing.status]

\* A _showTest that tokenizes the line whatever the cache holds.
ShowTestAlwaysTokenizing(S, src, idx, existing, rest, ev) ==
    /\ Commit(S)
    /\ calls' = rest (+) SetToBag({Call(src, idx, existing, "tokenize")})
    /\ lastEvent' = [ev EXCEPT !.returned = "pending"]

\* _showTest once a tokenizer is there: the try block up to the first await.
ShowTestWithTokenizer(S, src, idx, existing, rest, ev) ==
    IF existing.status # "undefined"
    THEN \* reuse the existing tokenization
         /\ Commit(DisplayTest(S, idx, existing.tokens, existing.blankedIndices))
         /\ calls' = rest
         /\ lastEvent' = [ev EXCEPT !.returned = "true", !.reused = TRUE]
    ELSE /\ Commit(S)
         /\ calls' = rest (+) SetToBag({Call(src, idx, existing, "tokenize")})
         /\ lastEvent' = [ev EXCEPT !.returned = "pending"]

\* A decision that follows _shouldTestLine alone.
AfterShouldTestLineOnly(S, src, idx, existing, shouldTest, rest, ev) ==
    IF shouldTest
    THEN LET S1 == [S EXCEPT !.testLineIndices = @ \cup {idx}, !.currentSubtitle = idx]
             ev1 == [ev EXCEPT !.decided = "yes"]
         IN IF ~S1.tokenizer
            THEN /\ Commit(S1)
                 /\ calls' = rest (+) SetToBag({Call(src, idx, existing, "init")})
                 /\ lastEvent' = [ev1 EXCEPT !.returned = "pending"]
            ELSE ShowTestWithTokenizer(S1, src, idx, existing, rest, ev1)
    ELSE /\ Commit(S)
         /\ calls' = rest
         /\ lastEvent' = [ev EXCEPT !.decided = "no", !.returned = "false"]

\* onSubtitleShown after "const shouldTest = await this._shouldTestLine(...)".
AfterShouldTestLine(S, src, idx, existing, shouldTest, rest, ev) ==
    IF shouldTest \/ existing.status = "incomplete"
    THEN LET S1 == [S EXCEPT !.testLineIndices = @ \cup {idx}, !.currentSubtitle = idx]
             ev1 == [ev EXCEPT !.decided = "yes"]
         IN IF ~S1.tokenizer
            THEN \* _showTest: await this.updateSettings()
                 /\ Commit(S1)
                 /\ calls' = rest (+) SetToBag({Call(src, idx, existing, "init")})
                 /\ lastEvent' = [ev1 EXCEPT !.returned = "pending"]
            ELSE ShowTestWithTokenizer(S1, src, idx, existing, rest, ev1)
    ELSE /\ Commit(S)
         /\ calls' = rest
         /\ lastEvent' = [ev EXCEPT !.decided = "no", !.returned = "false"]

\* A cadence rule that counts from the line before.
ShouldTestLineOffByOne(S, idx) ==
    LET S1 == GetOrCreateSession(S)
    IN IF idx \in S1.currentSession.studiedLineIndices THEN "false"
       ELSE IF ~IsRateLimitSatisfied(S1) THEN "false"
       ELSE IF lineSelectionStrategy = "random"
            THEN (IF (S1.lineCount - 1) % frequency = 0 THEN "true" ELSE "false")
       ELSE IF ~IsPrioritySelectionReady(S1) THEN "false"
       ELSE "score"

\* A decision that sends a knowledge-driven line to scoring before looking
\* at the session.
ShouldTestLineScoringFirst(S, idx) ==
    LET S1 == GetOrCreateSession(S)
    IN IF lineSelectionStrategy # "random" /\ IsPrioritySelectionReady(S1) THEN "score"
       ELSE IF idx \in S1.currentSession.studiedLineIndices THEN "false"
       ELSE IF ~IsRateLimitSatisfied(S1) THEN "false"
       ELSE IF lineSelectionStrategy = "random"
            THEN (IF S1.lineCount % frequency = 0 THEN "true" ELSE "false")
       ELSE "false"

\* _shouldTestLine up to its first await: "true", "false", or "score" when the
\* line has to be tokenized and scored.
ShouldTestLine(S, idx) ==
    LET S1 == GetOrCreateSession(S)
    IN IF idx \in S1.currentSession.studiedLineIndices THEN "false"
       ELSE IF ~IsRateLimitSatisfied(S1) THEN "false"
       ELSE IF lineSelectionStrategy = "random"
            THEN (IF S1.lineCount % frequency = 0 THEN "true" ELSE "false")
       ELSE IF ~IsPrioritySelectionReady(S1) THEN "false"
       ELSE "score"

\* onSubtitleShown from its entry to its first await or its return.
OnSubtitleShownEntry(idx) ==
    /\ ~overlayVisible
    /\ enabled
    /\ lineCount < MaxLineCount
    /\ GetOrCreateSession(Cur).currentSession.cardsShownCount < MaxCards
    /\ LET S0 == [Cur EXCEPT !.lineCount = @ + 1]
           existing == GetLineStatus(S0, idx)
           S1 == GetOrCreateSession(S0)
           ev == CallEvent("onSubtitleShown", idx, existing)
           should == ShouldTestLine(S0, idx)
       IN IF existing.status \in {"pass", "fail"}
          THEN /\ Commit(S0)
               /\ calls' = calls
               /\ lastEvent' = [ev EXCEPT !.decided = "no", !.returned = "false"]
          ELSE IF should = "score"
          THEN /\ Commit(S1)
               /\ calls' = calls (+) SetToBag({Call(videoSrc, idx, existing, "score")})
               /\ lastEvent' = [ev EXCEPT !.decided = "pending", !.returned = "pending"]
          ELSE AfterShouldTestLine(S1, videoSrc, idx, existing, should = "true", calls, ev)
    /\ UNCHANGED <<settingsVars, hostVars, submission>>

\* The subtitle controller calls onSubtitleShown while no earlier call is
\* suspended.
OnSubtitleShown(idx) ==
    /\ BagCardinality(calls) < MaxCalls
    /\ OnSubtitleShownEntry(idx)

\* The subtitle controller calls onSubtitleShown while earlier calls are still
\* suspended on an await: nothing in the method holds the call back.
OnSubtitleShownDuring(idx) ==
    /\ BagCardinality(calls) >= MaxCalls
    /\ BagCardinality(calls) < MaxOverlap
    /\ OnSubtitleShownEntry(idx)

\* An entry that counts the line before it looks at the subtitle.
OnSubtitleShownCounted(textBlank, hasIndex) ==
    /\ overlayVisible \/ ~enabled \/ textBlank \/ ~hasIndex
    /\ lineCount < MaxLineCount
    /\ lastEvent' = [Event("onSubtitleShownIgnored") EXCEPT !.decided = "no", !.returned = "false"]
    /\ UNCHANGED <<settingsVars, hostVars, submission, calls>>
    /\ Commit([Cur EXCEPT !.lineCount = @ + 1])

\* onSubtitleShown returning false at once: a test is showing, the engine is
\* disabled, the text is blank or the subtitle has no index.
OnSubtitleShownIgnored(textBlank, hasIndex) ==
    /\ overlayVisible \/ ~enabled \/ textBlank \/ ~hasIndex
    /\ lastEvent' = [Event("onSubtitleShownIgnored") EXCEPT
                        !.decided = "no", !.returned = "false",
                        !.cause = CASE overlayVisible -> "showing"
                                    [] ~enabled -> "disabled"
                                    [] textBlank -> "blankText"
                                    [] OTHER -> "noIndex"]
    /\ UNCHANGED <<settingsVars, hostVars, submission, calls>>
    /\ Commit(Cur)

\* What the lookups of one scored token return: the flashcard status of
\* getAnkiStatus and the statistics of RecognitionRepository.getStats, either
\* of which may be rejected.
AnkiLookups == {"uncollected", "mature", "threw"}
StatsLookups == {"none", "failures", "threw"}

\* The lookups of a line with n testable tokens.
AllLookups(n) == [1..n -> [anki : AnkiLookups, stats : StatsLookups]]
PlainLookups(n) == { [k \in 1..n |-> [anki |-> "uncollected", stats |-> "none"]],
                     [k \in 1..n |-> [anki |-> "mature", stats |-> "none"]] }

\* PriorityCalculator.calculatePriority, in tenths: a base weight that falls
\* from uncollected to mature, raised by recorded failures.
CalculatePriority(ankiStatus, recognitionStats) ==
    (IF ankiStatus = "uncollected" THEN 48 ELSE 8)
    + (IF recognitionStats = "failures" THEN 8 ELSE 0)

IntensityThreshold == 40

\* PriorityCalculator.shouldTriggerStudyCard
ShouldTriggerStudyCard(lineScore) == lineScore >= IntensityThreshold

\* tokens.filter(t => t.pos !== kigou && t.text.trim() !== '' && ...)
TestableTokens(out) == SelectSeq(Flat(out.groups), IsTestable)

\* _calculateLinePriorityScore from token k on: a rejected status lookup counts
\* as uncollected, a rejected statistics lookup is thrown on to the caller.
RECURSIVE CalculateLinePriorityScore(_, _, _)
CalculateLinePriorityScore(tokens, lookups, k) ==
    IF k > Len(tokens) THEN [threw |-> FALSE, score |-> 0]
    ELSE LET ankiStatus == IF ankiApi /\ Len(studyDecks) > 0 /\ lookups[k].anki # "threw"
                           THEN lookups[k].anki ELSE "uncollected"
         IN IF lookups[k].stats = "threw" THEN [threw |-> TRUE, score |-> 0]
            ELSE LET rest == CalculateLinePriorityScore(tokens, lookups, k + 1)
                 IN [rest EXCEPT !.score = @ + CalculatePriority(ankiStatus, lookups[k].stats)]

\* _shouldTestLine resumed: the line was tokenized and its testable tokens
\* were looked up and scored.
ScoreDone(c, out, lookups) ==
    /\ c \in Suspended("score")
    /\ LET testable == TestableTokens(out)
           scored == CalculateLinePriorityScore(testable, lookups, 1)
           shouldTest == /\ ~out.threw
                         /\ testable # <<>>
                         /\ ~scored.threw
                         /\ ShouldTriggerStudyCard(scored.score)
       IN AfterShouldTestLine(Cur, c.src, c.index, c.existing, shouldTest,
                              calls (-) SetToBag({c}),
                              [CallEvent("scoreDone", c.index, c.existing) EXCEPT
                                  !.cause = CASE shouldTest -> "na"
                                              [] out.threw -> "threw"
                                              [] testable = <<>> -> "noTestable"
                                              [] scored.threw -> "lookupThrew"
                                              [] OTHER -> "lowScore",
                                  !.scoring = [groups |-> out.groups, lookups |-> lookups,
                                               threw |-> scored.threw, score |-> scored.score]])
    /\ UNCHANGED <<settingsVars, hostVars, submission>>

\* _showTest resumed after updateSettings: the tokenizer was created, its
\* creation failed, or another call had created it in the meantime.
InitDone(c, outcome) ==
    /\ c \in Suspended("init")
    /\ outcome = "kept" => tokenizer
    /\ LET S1 == [Cur EXCEPT !.tokenizer = CASE outcome = "created" -> TRUE
                                              [] outcome = "failed" -> FALSE
                                              [] OTHER -> @]
           rest == calls (-) SetToBag({c})
           ev == [CallEvent("initDone", c.index, c.existing) EXCEPT !.decided = "yes"]
       IN IF ~S1.tokenizer
          THEN /\ Commit(AbortTest(S1, c.index))
               /\ calls' = rest
               /\ lastEvent' = [ev EXCEPT !.returned = "false", !.cause = "noTokenizer",
                                          !.notified = TRUE]
          ELSE ShowTestWithTokenizer(S1, c.src, c.index, c.existing, rest, ev)
    /\ UNCHANGED <<settingsVars, hostVars, submission>>

\* _showTest resumed after tokenize and selectTokensToBlank.
TokenizeDone(c, out) ==
    /\ c \in Suspended("tokenize")
    /\ LET tokens == Flat(out.groups)
           usable == ~out.threw /\ tokens # <<>> /\ GetTestableIndices(tokens) # {}
           ev == [CallEvent("tokenizeDone", c.index, c.existing) EXCEPT !.decided = "yes"]
       IN \E blankedIndices \in (IF usable THEN SelectTokensToBlank(tokens) ELSE {<<>>}) :
            IF usable /\ blankedIndices # <<>>
            THEN /\ Commit(DisplayTest(Cur, c.index, tokens, blankedIndices))
                 /\ lastEvent' = [ev EXCEPT !.returned = "true"]
            ELSE /\ Commit(AbortTest(Cur, c.index))
                 /\ lastEvent' = [ev EXCEPT !.returned = "false",
                                            !.cause = CASE out.threw -> "threw"
                                                        [] tokens = <<>> -> "noTokens"
                                                        [] ~usable -> "noTestable"
                                                        [] OTHER -> "noBlanks"]
    /\ calls' = calls (-) SetToBag({c})
    /\ UNCHANGED <<settingsVars, hostVars, submission>>

(***************************************************************************)
(* Answer validation (SrsController._handleSubmit).                        *)
(***************************************************************************)
\* answers[i]?.trim() || ''
UserAnswer(answers, i) == IF i \in DOMAIN answers THEN Trim(answers[i]) ELSE <<>>

\* this._katakanaToHiragana(token.reading || token.text)
ExpectedReading(token) ==
    KatakanaToHiragana(IF token.reading # <<>> THEN token.reading ELSE token.text)

\* Faulty variants of the first two tiers: no exact match, no folding.
ExactTextNever(token, userAnswer) == FALSE
ReadingMatchUnfolded(token, userAnswer) ==
    userAnswer = (IF token.reading # <<>> THEN token.reading ELSE token.text)

\* 1. Exact text match
ExactTextMatch(token, userAnswer) == userAnswer = Trim(token.text)

\* 2. User typed the reading directly
ReadingMatch(token, userAnswer) == userAnswer = ExpectedReading(token)

\* userTokens.flat().map(t => fold(t.reading || t.text)).join('')
UserReading(groups) ==
    LET userTokens == Flat(groups)
    IN Join([k \in DOMAIN userTokens |-> ExpectedReading(userTokens[k])])

\* 3. The re-tokenized answer reads like the token; a throw is a miss.
TokenizedReadingMatch(token, out) ==
    ~out.threw /\ UserReading(out.groups) = ExpectedReading(token)

\* What the tokenizer may return for the user's answer: a throw, the answer as
\* one unknown word (with and without reading), or words read "gakusei".
PlainTokenizeOutcomes(userAnswer) ==
    { [threw |-> TRUE, groups |-> <<>>],
      [threw |-> FALSE, groups |-> << <<Tok(userAnswer, userAnswer, "noun", "UNKNOWN")>> >>] }

AnswerTokenizeOutcomes(userAnswer) ==
    PlainTokenizeOutcomes(userAnswer) \cup
    { 
      [threw |-> FALSE, groups |-> << <<Tok(userAnswer, <<>>, "noun", "none")>> >>],
      [threw |-> FALSE, groups |-> << <<Tok(userAnswer, TGakusei.reading, "noun", "KNOWN")>> >>],
      [threw |-> FALSE, groups |-> << <<Tok(userAnswer, <<Ch.kaGa, Ch.kaKu>>, "noun", "KNOWN")>>,
                                      <<Tok(userAnswer, <<Ch.kaSe, Ch.kaI>>, "noun", "KNOWN")>> >>] }

NotCalled == [called |-> FALSE, threw |-> FALSE, groups |-> <<>>]
Called(out) == [called |-> TRUE, threw |-> out.threw, groups |-> out.groups]

\* The for loop of _handleSubmit from blank Len(answerResults)+1 on, up to the
\* next tokenizer await (pc "tokenize") or to its end (pc "validated").
RECURSIVE ValidateFrom(_, _)
ValidateFrom(sub, hasTokenizer) ==
    LET i == Len(sub.answerResults) + 1
    IN IF i > Len(sub.blankedIndices) THEN [sub EXCEPT !.pc = "validated"]
       ELSE LET token == sub.tokens[sub.blankedIndices[i]]
                userAnswer == UserAnswer(sub.answers, i)
            IN IF ExactTextMatch(token, userAnswer) \/ ReadingMatch(token, userAnswer)
               THEN ValidateFrom([sub EXCEPT !.answerResults = Append(@, TRUE),
                                             !.tokenizerLog = Append(@, NotCalled)],
                                 hasTokenizer)
               ELSE IF hasTokenizer
               THEN [sub EXCEPT !.pc = "tokenize"]
               ELSE ValidateFrom([sub EXCEPT !.answerResults = Append(@, FALSE),
                                             !.tokenizerLog = Append(@, NotCalled)],
                                 hasTokenizer)

\* A verdict that is content with one correct blank.
AnyCorrect(answerResults) == \E i \in DOMAIN answerResults : answerResults[i]

\* answerResults.every(r => r)
AllCorrect(answerResults) == \A i \in DOMAIN answerResults : answerResults[i]

\* StudyOverlay.updateState
OverlayUpdateState(S, state, whole) ==
    IF ~S.overlayState.defined THEN S
    ELSE [S EXCEPT !.overlayState =
             IF whole THEN state
             ELSE [@ EXCEPT !.userAnswers = state.userAnswers,
                            !.showingResult = state.showingResult,
                            !.resultCorrect = state.resultCorrect,
                            !.answerResults = state.answerResults]]

\* _handleSubmit from "Update display to show result" to its end.  When hide()
\* ran during an await the spread of the absent state leaves only the four
\* result fields.
ShowResult(S, sub) ==
    LET base == IF S.currentDisplayState.defined THEN S.currentDisplayState
                ELSE [NoState EXCEPT !.defined = TRUE]
        state == [base EXCEPT !.userAnswers = sub.answers,
                              !.showingResult = TRUE,
                              !.resultCorrect = AllCorrect(sub.answerResults),
                              !.answerResults = sub.answerResults]
        S1 == [S EXCEPT !.currentDisplayState = state]
        S2 == OverlayUpdateState(S1, state, S.currentDisplayState.defined)
    IN [S2 EXCEPT !.testCompleted = TRUE]

\* A submission that saves its records whatever the setting.
AfterValidationAlwaysSaving(S, sub, ev) ==
    /\ Commit(S)
    /\ submission' = [sub EXCEPT !.pc = "save"]
    /\ lastEvent' = [ev EXCEPT !.returned = "pending"]

\* _handleSubmit once the loop has ended: save the records when results are
\* tracked (an await), then show the result.
AfterValidation(S, sub, ev) ==
    IF trackResults
    THEN /\ Commit(S)
         /\ submission' = [sub EXCEPT !.pc = "save"]
         /\ lastEvent' = [ev EXCEPT !.returned = "pending"]
    ELSE /\ Commit(ShowResult(S, sub))
         /\ submission' = NoSubmission
         /\ lastEvent' = [ev EXCEPT !.returned = "done", !.submitted = sub]

AfterTiers(S, sub, ev) ==
    IF sub.pc = "tokenize"
    THEN /\ Commit(S)
         /\ submission' = sub
         /\ lastEvent' = [ev EXCEPT !.returned = "pending"]
    ELSE AfterValidation(S, sub, ev)

\* The answers a user may type into the input of a blanked token.
PlainAnswers(token) == { token.text, <<Ch.latinX>>, <<Ch.sp>> }

AllAnswers(token) ==
    { token.text, ExpectedReading(token), token.reading,
      <<Ch.sp>> \o token.text \o <<Ch.isp>>, <<Ch.latinX>>, <<Ch.sp>>, <<>> }

\* The sequences whose i-th element is in the i-th set.
RECURSIVE Product(_)
Product(sets) ==
    IF sets = <<>> THEN {<<>>}
    ELSE {<<h>> \o t : h \in Head(sets), t \in Product(Tail(sets))}

\* One answer per input of the overlay, each among Choices(its token).
AnswersFor(state, Choices(_)) ==
    Product([i \in DOMAIN state.blankedIndices |-> Choices(state.tokens[state.blankedIndices[i]])])

\* An input change that does not look at the submitted flag.
HandleInputChangeAlways(S, answers) ==
    IF ~S.currentDisplayState.defined THEN S
    ELSE [S EXCEPT !.currentDisplayState.userAnswers = answers]

\* _handleInputChange for every input: the answers as typed.
HandleInputChange(S, answers) ==
    IF ~S.currentDisplayState.defined \/ S.answerSubmitted THEN S
    ELSE [S EXCEPT !.currentDisplayState.userAnswers = answers]

\* The user types the answers, then StudyOverlay._handleSubmit (the submit
\* button or Enter in an input, which exist while the overlay shows the
\* inputs), which calls SrsController._handleSubmit.  One submission is
\* followed at a time.
OverlaySubmit(answers) ==
    /\ overlayVisible /\ overlayState.defined /\ ~overlayState.showingResult
    /\ submission.pc = "idle"
    /\ LET S1 == [HandleInputChange(Cur, answers) EXCEPT !.overlayState.userAnswers = answers]
           ev == [Event("submit") EXCEPT !.index = currentSubtitle, !.src = videoSrc]
       IN IF \E i \in DOMAIN answers : Trim(answers[i]) = <<>>
          THEN \* Don't submit unless ALL fields are filled
               /\ Commit(S1)
               /\ submission' = submission
               /\ lastEvent' = [ev EXCEPT !.returned = "refused"]
          ELSE IF currentSubtitle = NoSubtitle \/ ~currentDisplayState.defined \/ answerSubmitted
          THEN /\ Commit(S1)
               /\ submission' = submission
               /\ lastEvent' = [ev EXCEPT !.returned = "ignored"]
          ELSE AfterTiers([S1 EXCEPT !.answerSubmitted = TRUE],
                          ValidateFrom([NoSubmission EXCEPT
                                           !.tokens = currentDisplayState.tokens,
                                           !.blankedIndices = currentDisplayState.blankedIndices,
                                           !.answers = answers],
                                       tokenizer),
                          ev)
    /\ UNCHANGED <<settingsVars, hostVars, calls>>

\* The user changes the inputs and submits again while the submission of
\* this test is still being validated or saved: _handleSubmit returns at
\* "Prevent double submission".
OverlaySubmitDuring(answers) ==
    /\ overlayVisible /\ overlayState.defined /\ ~overlayState.showingResult
    /\ submission.pc # "idle"
    /\ answerSubmitted
    /\ Commit([HandleInputChange(Cur, answers) EXCEPT !.overlayState.userAnswers = answers])
    /\ lastEvent' = [Event("submit") EXCEPT
                        !.index = currentSubtitle, !.src = videoSrc,
                        !.returned = IF \E i \in DOMAIN answers : Trim(answers[i]) = <<>>
                                     THEN "refused" ELSE "ignored"]
    /\ UNCHANGED <<settingsVars, hostVars, calls, submission>>

\* The answer the suspended submission is having tokenized.
NextAnswer == UserAnswer(submission.answers, Len(submission.answerResults) + 1)

\* _handleSubmit resumed after "await this._tokenizer.tokenize(userAnswer)".
SubmitTokenizeDone(out) ==
    /\ submission.pc = "tokenize"
    /\ LET i == Len(submission.answerResults) + 1
           token == submission.tokens[submission.blankedIndices[i]]
       IN AfterTiers(Cur,
                     ValidateFrom([submission EXCEPT
                                      !.answerResults = Append(@, TokenizedReadingMatch(token, out)),
                                      !.tokenizerLog = Append(@, Called(out))],
                                  tokenizer),
                     Event("submitTokenizeDone"))
    /\ UNCHANGED <<settingsVars, hostVars, calls>>

\* Which of the writes of a submission with n blanks are rejected by the
\* repositories: one flag per StudyRepository.save and one for the batch.
AllSaveOutcomes(n) == [1..(n + 1) -> BOOLEAN]
PlainSaveOutcomes(n) == {[k \in 1..(n + 1) |-> FALSE], [k \in 1..(n + 1) |-> k = 1]}

\* The record _saveStudyRecords hands to StudyRepository.save for blank i and
\* the tuple it adds to the recognition batch; the tokens carry no basicForm,
\* so the lemma is the text.
StudyRecord(sub, i) ==
    LET token == sub.tokens[sub.blankedIndices[i]]
    IN [lemma |-> token.text, reading |-> ExpectedReading(token), surfaceForm |-> token.text,
        result |-> IF sub.answerResults[i] THEN "correct" ELSE "incorrect"]

RecognitionAttempt(sub, i) ==
    LET token == sub.tokens[sub.blankedIndices[i]]
    IN [lemma |-> token.text, reading |-> ExpectedReading(token), success |-> sub.answerResults[i]]

\* A _saveStudyRecords that gives up at the first rejected write.
SaveStudyRecordsStopping(sub, failed) ==
    LET n == Len(sub.blankedIndices)
        rejected == {k \in 1..(n + 1) : failed[k]}
        last == IF rejected = {} THEN n + 1
                ELSE CHOOSE k \in rejected : \A m \in rejected : k <= m
    IN [i \in 1..last |->
           IF i <= n
           THEN [call |-> "save", failed |-> failed[i], record |-> StudyRecord(sub, i)]
           ELSE [call |-> "recordAttemptsBatch", failed |-> failed[i],
                 attempts |-> [k \in DOMAIN sub.blankedIndices |-> RecognitionAttempt(sub, k)]]]

\* A _saveStudyRecords that records the wrong answers only.
SaveStudyRecordsOfMisses(sub, failed) ==
    LET misses == SortedSeq({i \in DOMAIN sub.blankedIndices : ~sub.answerResults[i]})
    IN [k \in DOMAIN misses |->
           [call |-> "save", failed |-> failed[misses[k]], record |-> StudyRecord(sub, misses[k])]]
       \o << [call |-> "recordAttemptsBatch", failed |-> failed[Len(sub.blankedIndices) + 1],
               attempts |-> [k \in DOMAIN misses |-> RecognitionAttempt(sub, misses[k])]] >>

\* _saveStudyRecords: the repository calls it makes, in order.  A rejected
\* write is caught and logged, and the next write follows.
SaveStudyRecords(sub, failed) ==
    [i \in DOMAIN sub.blankedIndices |->
        [call |-> "save", failed |-> failed[i], record |-> StudyRecord(sub, i)]]
    \o << [call |-> "recordAttemptsBatch", failed |-> failed[Len(sub.blankedIndices) + 1],
            attempts |-> [i \in DOMAIN sub.blankedIndices |-> RecognitionAttempt(sub, i)]] >>

\* _handleSubmit resumed after "await this._saveStudyRecords(...)".
SubmitSaveDone(failed) ==
    /\ submission.pc = "save"
    /\ LET sub == [submission EXCEPT !.writes = SaveStudyRecords(submission, failed)]
       IN /\ Commit(ShowResult(Cur, sub))
          /\ lastEvent' = [Event("submitSaveDone") EXCEPT !.returned = "done", !.submitted = sub]
    /\ submission' = NoSubmission
    /\ UNCHANGED <<settingsVars, hostVars, calls>>

(***************************************************************************)
(* Continue, dismissal, the host.                                          *)
(***************************************************************************)
\* _handleContinue, which ends with onTestComplete?.(passed) and context.play()
HandleContinue(S, passed) ==
    IF S.currentSubtitle = NoSubtitle THEN S
    ELSE LET existingInfo == GetLineStatus(S, S.currentSubtitle)
             S1 == IF existingInfo.status # "undefined"
                   THEN CacheLineStatus(S, S.currentSubtitle,
                            [existingInfo EXCEPT !.status = IF passed THEN "pass" ELSE "fail"])
                   ELSE S
             S2 == [S1 EXCEPT !.testLineIndices = @ \ {S.currentSubtitle},
                              !.forceHideSubtitles = FALSE,
                              !.forceHide = FALSE]
         IN [Hide(S2) EXCEPT !.paused = FALSE]

\* The continue button (or Enter) of the overlay, which exists while the
\* overlay shows a result: onContinue(this._currentState?.resultCorrect ?? false)
OverlayContinue ==
    /\ overlayVisible /\ overlayState.defined /\ overlayState.showingResult
    /\ Commit(HandleContinue(Cur, overlayState.resultCorrect))
    /\ lastEvent' = [Event("continue") EXCEPT
                        !.index = shownTest.index, !.src = shownTest.src,
                        !.returned = IF currentSubtitle = NoSubtitle THEN "ignored" ELSE "done",
                        !.passed = overlayState.resultCorrect]
    /\ UNCHANGED <<settingsVars, hostVars, calls, submission>>

\* A replay that forgets that the answers were submitted.
ReplayForgettingSubmission(S) ==
    IF S.currentSubtitle = NoSubtitle THEN S
    ELSE [S EXCEPT !.position = SubtitleStart(S.currentSubtitle) \div MsPerSecond,
                   !.paused = FALSE,
                   !.answerSubmitted = FALSE,
                   !.frameLoops = @ \cup {ReplayLoop}]

\* _replay
Replay(S) ==
    IF S.currentSubtitle = NoSubtitle THEN S
    ELSE [S EXCEPT !.position = SubtitleStart(S.currentSubtitle) \div MsPerSecond,
                   !.paused = FALSE,
                   !.frameLoops = @ \cup {ReplayLoop}]

\* The replay button of the overlay.
OverlayReplay ==
    /\ overlayVisible
    /\ Commit(Replay(Cur))
    /\ lastEvent' = [Event("replay") EXCEPT
                        !.index = shownTest.index, !.src = shownTest.src,
                        !.returned = IF currentSubtitle = NoSubtitle THEN "ignored" ELSE "done"]
    /\ UNCHANGED <<settingsVars, hostVars, calls, submission>>

\* checkTime of a frame loop finds the end of its line reached.
LoopDue(loop) ==
    IF loop.kind = "replay"
    THEN currentSubtitle # NoSubtitle /\ position * MsPerSecond >= SubtitleEnd(currentSubtitle)
    ELSE position * MsPerSecond >= loop.endTimeMs

\* checkTime of the replay loop reads the end of a current subtitle that is
\* no longer there; the exception ends the loop.
LoopThrows(loop) == loop.kind = "replay" /\ currentSubtitle = NoSubtitle

\* An animation frame in which a loop ends: every loop whose line has ended
\* pauses the video, the others schedule themselves again.
Frame ==
    /\ \E loop \in frameLoops : LoopDue(loop) \/ LoopThrows(loop)
    /\ Commit([Cur EXCEPT !.frameLoops = {loop \in @ : ~LoopDue(loop) /\ ~LoopThrows(loop)},
                          !.paused = @ \/ \E loop \in frameLoops : LoopDue(loop)])
    /\ lastEvent' = [Event("frame") EXCEPT
                        !.index = shownTest.index, !.src = shownTest.src,
                        !.returned = IF \E loop \in frameLoops : LoopDue(loop)
                                     THEN "paused" ELSE "running",
                        !.cause = IF \E loop \in frameLoops : LoopThrows(loop)
                                  THEN "threw" ELSE "na"]
    /\ UNCHANGED <<settingsVars, hostVars, calls, submission>>

\* The video plays on for a second; the frames in between ended no loop.
Advance ==
    /\ ~paused
    /\ position < MaxPosition
    /\ \A loop \in frameLoops : ~LoopDue(loop) /\ ~LoopThrows(loop)
    /\ Commit([Cur EXCEPT !.position = @ + 1])
    /\ lastEvent' = Event("advance")
    /\ UNCHANGED <<settingsVars, hostVars, calls, submission>>

\* The user seeks to the start of line l.
Seek(l) ==
    /\ position # SubtitleStart(l) \div MsPerSecond
    /\ Commit([Cur EXCEPT !.position = SubtitleStart(l) \div MsPerSecond])
    /\ lastEvent' = [Event("seek") EXCEPT !.index = l]
    /\ UNCHANGED <<settingsVars, hostVars, calls, submission>>

\* The user resumes the paused video.
HostPlay ==
    /\ paused
    /\ Commit([Cur EXCEPT !.paused = FALSE])
    /\ lastEvent' = Event("play")
    /\ UNCHANGED <<settingsVars, hostVars, calls, submission>>

\* The player reaches subtitle line idx and the host reports it.
SubtitleReached(idx) ==
    /\ SubtitleStart(idx) <= position * MsPerSecond
    /\ position * MsPerSecond < SubtitleEnd(idx)
    /\ OnSubtitleShown(idx)

\* The host calls hide().
HideTest ==
    /\ Commit(Hide(Cur))
    /\ lastEvent' = [Event("hide") EXCEPT !.index = shownTest.index, !.src = shownTest.src,
                                          !.decided = IF answerSubmitted THEN "submitted" ELSE "na"]
    /\ UNCHANGED <<settingsVars, hostVars, calls, submission>>

\* The host sets enabled.
Enable(value) ==
    /\ enabled # value
    /\ Commit(SetEnabled(Cur, value))
    /\ lastEvent' = [Event(IF value THEN "enable" ELSE "disable") EXCEPT
                        !.index = shownTest.index, !.src = shownTest.src,
                        !.decided = IF answerSubmitted THEN "submitted" ELSE "na"]
    /\ UNCHANGED <<settingsVars, hostVars, calls, submission>>

\* The page gives the video element another source.
VideoSrcChange(src) ==
    /\ src # videoSrc
    /\ videoSrc' = src
    /\ lastEvent' = [Event("videoSrcChange") EXCEPT !.src = src]
    /\ Commit(Cur)
    /\ UNCHANGED <<settingsVars, now, calls, submission>>

\* Time passes.
Tick ==
    /\ now < MaxNow
    /\ now' = now + 1
    /\ lastEvent' = Event("tick")
    /\ Commit(Cur)
    /\ UNCHANGED <<settingsVars, videoSrc, calls, submission>>

\* A second passes on the clock; the frames in between ended no loop.
SecondPasses ==
    /\ \A loop \in frameLoops : ~LoopDue(loop) /\ ~LoopThrows(loop)
    /\ Tick

(***************************************************************************)
(* KuromojiTokenizer and its worker.                                       *)
(***************************************************************************)
\* The texts handed to tokenize, the number of tokenize calls followed and
\* the number of dispose calls.
TokenizerTexts == {"", "neko"}
MaxRequests == 2
MaxDisposals == 1

\* A message between the main thread and a worker; a result carries the text
\* whose tokens it holds. Id 0 stands for a message without id.
WorkerMessage(type, id, text) == [type |-> type, id |-> id, text |-> text]

\* The service after construction: no worker (0), no readyPromise (0). inits
\* holds, for every readyPromise ever created, its state and the worker its
\* executor creates; requests holds the promises tokenize returned.
NoKuromoji ==
    [worker |-> 0, ready |-> FALSE, readyPromise |-> 0, pendingRequests |-> {},
     cache |-> {}, requestId |-> 0, inits |-> <<>>, requests |-> <<>>, disposals |-> 0]

\* initWorker() up to its fetch: the readyPromise is reused when there is one.
InitWorker(K) ==
    IF K.readyPromise # 0 THEN K
    ELSE [K EXCEPT !.inits = Append(@, [promise |-> "pending", worker |-> "fetching",
                                        tokenizer |-> "null", inbox |-> <<>>, outbox |-> <<>>]),
                   !.readyPromise = Len(K.inits) + 1]

\* tokenize(text) up to its await of initWorker().
Tokenize(text) ==
    /\ Len(kuromoji.requests) < MaxRequests
    /\ kuromoji' =
         IF text \in kuromoji.cache
         THEN [kuromoji EXCEPT !.requests = Append(@, [text |-> text, pc |-> "resolved",
                                   promise |-> 0, id |-> 0, tokens |-> <<text>>])]
         ELSE LET K == InitWorker(kuromoji)
              IN [K EXCEPT !.requests = Append(@, [text |-> text, pc |-> "initWorker",
                                   promise |-> K.readyPromise, id |-> 0, tokens |-> <<>>])]
    /\ UNCHANGED <<engineVars, tracker>>

\* The executor of readyPromise g after its fetch: the worker is created, stored
\* in this.worker and sent init, or the fetch failed and the promise is rejected.
WorkerCreated(g, ok) ==
    /\ g \in 1..Len(kuromoji.inits)
    /\ kuromoji.inits[g].worker = "fetching"
    /\ kuromoji' =
         IF ok
         THEN [kuromoji EXCEPT !.worker = g, !.inits[g].worker = "running",
                               !.inits[g].inbox = <<WorkerMessage("init", 0, "")>>]
         ELSE [kuromoji EXCEPT !.inits[g].worker = "failed", !.inits[g].promise = "rejected"]
    /\ UNCHANGED <<engineVars, tracker>>

\* self.onmessage of worker g on its next message: init starts building the
\* dictionary; tokenize answers with a result or an error when the tokenizer is
\* built and the text is not empty, and answers nothing otherwise.
WorkerOnMessage(g, outcome) ==
    /\ g \in 1..Len(kuromoji.inits)
    /\ kuromoji.inits[g].worker = "running"
    /\ kuromoji.inits[g].inbox # <<>>
    /\ LET w == kuromoji.inits[g]
           msg == Head(w.inbox)
           rest == [w EXCEPT !.inbox = Tail(w.inbox)]
       IN kuromoji' = [kuromoji EXCEPT !.inits[g] =
              IF msg.type = "init"
              THEN [rest EXCEPT !.tokenizer = "building"]
              ELSE IF msg.type = "tokenize" /\ w.tokenizer = "built" /\ msg.text # ""
              THEN [rest EXCEPT !.outbox = Append(@, WorkerMessage(outcome, msg.id, msg.text))]
              ELSE rest]
    /\ UNCHANGED <<engineVars, tracker>>

\* The dictionary build of worker g ends: ready, or an error without id.
WorkerBuilt(g, ok) ==
    /\ g \in 1..Len(kuromoji.inits)
    /\ kuromoji.inits[g].worker = "running"
    /\ kuromoji.inits[g].tokenizer = "building"
    /\ kuromoji' =
         IF ok
         THEN [kuromoji EXCEPT !.inits[g].tokenizer = "built",
                               !.inits[g].outbox = Append(@, WorkerMessage("ready", 0, ""))]
         ELSE [kuromoji EXCEPT !.inits[g].tokenizer = "null",
                               !.inits[g].outbox = Append(@, WorkerMessage("error", 0, ""))]
    /\ UNCHANGED <<engineVars, tracker>>

\* worker.onmessage of worker g on its next response; settling a readyPromise
\* that is already settled changes nothing.
OnMessage(g) ==
    /\ g \in 1..Len(kuromoji.inits)
    /\ kuromoji.inits[g].worker = "running"
    /\ kuromoji.inits[g].outbox # <<>>
    /\ LET msg == Head(kuromoji.inits[g].outbox)
           Settle(state, outcome) == IF state = "pending" THEN outcome ELSE state
           K == [kuromoji EXCEPT !.inits[g].outbox = Tail(@)]
           pending == { p \in K.pendingRequests : p.id = msg.id }
           Answered(pc, tokens) ==
               [K EXCEPT !.pendingRequests = @ \ pending,
                         !.cache = IF pc = "resolved"
                                   THEN @ \cup { K.requests[p.request].text : p \in pending }
                                   ELSE @,
                         !.requests = [n \in DOMAIN @ |->
                                         IF \E p \in pending : p.request = n
                                         THEN [@[n] EXCEPT !.pc = pc, !.tokens = tokens]
                                         ELSE @[n]]]
       IN kuromoji' =
            IF msg.type = "ready"
            THEN [K EXCEPT !.ready = TRUE, !.inits[g].promise = Settle(@, "resolved")]
            ELSE IF msg.type = "error" /\ msg.id = 0
            THEN [K EXCEPT !.inits[g].promise = Settle(@, "rejected")]
            ELSE IF msg.type = "result" /\ msg.id # 0
            THEN Answered("resolved", <<msg.text>>)
            ELSE IF msg.type = "error" /\ msg.id # 0
            THEN Answered("rejected", <<>>)
            ELSE K
    /\ UNCHANGED <<engineVars, tracker>>

\* tokenize call n after its await of initWorker(): it is rejected with the
\* readyPromise, or registers its request and posts it to this.worker, which
\* throws in the executor when there is no worker.
TokenizePosts(n) ==
    /\ n \in 1..Len(kuromoji.requests)
    /\ kuromoji.requests[n].pc = "initWorker"
    /\ kuromoji.inits[kuromoji.requests[n].promise].promise # "pending"
    /\ LET r == kuromoji.requests[n]
           id == kuromoji.requestId + 1
           K == [kuromoji EXCEPT !.requestId = id,
                                 !.pendingRequests = @ \cup {[id |-> id, request |-> n]}]
       IN kuromoji' =
            IF kuromoji.inits[r.promise].promise = "rejected"
            THEN [kuromoji EXCEPT !.requests[n].pc = "rejected"]
            ELSE IF K.worker = 0
            THEN [K EXCEPT !.requests[n].pc = "rejected", !.requests[n].id = id]
            ELSE [K EXCEPT !.requests[n].pc = "posted", !.requests[n].id = id,
                           !.inits[K.worker].inbox =
                               Append(@, WorkerMessage("tokenize", id, r.text))]
    /\ UNCHANGED <<engineVars, tracker>>

\* dispose(): the worker is terminated with its messages, the pending requests
\* and the cache are cleared.
Dispose ==
    /\ kuromoji.disposals < MaxDisposals
    /\ LET K == IF kuromoji.worker # 0
                THEN [kuromoji EXCEPT !.inits[kuromoji.worker].worker = "terminated",
                                      !.inits[kuromoji.worker].inbox = <<>>,
                                      !.inits[kuromoji.worker].outbox = <<>>,
                                      !.worker = 0]
                ELSE kuromoji
       IN kuromoji' = [K EXCEPT !.ready = FALSE, !.readyPromise = 0,
                                !.pendingRequests = {}, !.cache = {},
                                !.disposals = @ + 1]
    /\ UNCHANGED <<engineVars, tracker>>

\* The steps the event loops of the page and of the workers take by themselves.
TokenizerProgress ==
    \/ \E g \in 1..MaxRequests : \E ok \in BOOLEAN : WorkerCreated(g, ok)
    \/ \E g \in 1..MaxRequests : \E outcome \in {"result", "error"} : WorkerOnMessage(g, outcome)
    \/ \E g \in 1..MaxRequests : \E ok \in BOOLEAN : WorkerBuilt(g, ok)
    \/ \E g \in 1..MaxRequests : OnMessage(g)
    \/ \E n \in 1..MaxRequests : TokenizePosts(n)

(***************************************************************************)
(* WatchTimeTracker.                                                       *)
(***************************************************************************)
FlushIntervalMs == 30000
MinDurationMs == 1000

\* The clock of the tracker's runs (seconds) and the settings checks that may
\* be pending at once.
MaxWatchNow == 31
MaxChecks == 2

\* The tracker before bind(): no subtitles loaded, no timer (0), no settings
\* check pending. pausedMs is the part of the time since _trackingStartTime, and
\* sent.pausedMs the part of the record the last step sent, that elapsed while
\* the video was paused.
NoTracker ==
    [bound |-> FALSE, subtitleCount |-> 0, isTracking |-> FALSE, trackingStartTime |-> 0,
     accumulatedMs |-> 0, accumulatedPausedMs |-> 0, flushInterval |-> 0, checks |-> 0,
     pausedMs |-> 0, sent |-> [durationMs |-> 0, pausedMs |-> 0]]

\* _accumulateTime() at Date.now() = t.
AccumulateTime(T, t) ==
    IF ~T.isTracking THEN T
    ELSE [T EXCEPT !.accumulatedMs = @ + (t - T.trackingStartTime),
                   !.accumulatedPausedMs = @ + T.pausedMs,
                   !.pausedMs = 0,
                   !.trackingStartTime = t]

\* _stopTracking() at Date.now() = t.
StopTracking(T, t) ==
    IF ~T.isTracking THEN T
    ELSE [AccumulateTime(T, t) EXCEPT !.isTracking = FALSE, !.flushInterval = 0]

\* _flush(): what was accumulated is sent as a record when it reaches the
\* minimum duration, and dropped otherwise.
Flush(T) ==
    [T EXCEPT !.accumulatedMs = 0, !.accumulatedPausedMs = 0,
              !.sent = IF T.accumulatedMs < MinDurationMs THEN NoTracker.sent
                       ELSE [durationMs |-> T.accumulatedMs, pausedMs |-> T.accumulatedPausedMs]]

\* _startTracking() at Date.now() = t; flushInterval holds the time the
\* interval timer fires next.
StartTracking(T, t) ==
    IF T.isTracking THEN T
    ELSE [T EXCEPT !.isTracking = TRUE, !.trackingStartTime = t, !.pausedMs = 0,
                   !.flushInterval = t + FlushIntervalMs]

\* _checkAndStartTracking() up to the await in _shouldTrack(): without
\* subtitles the answer is no, otherwise the settings are read.
CheckAndStartTracking(T) ==
    IF T.subtitleCount = 0 THEN T ELSE [T EXCEPT !.checks = @ + 1]

\* A step of the tracker: the video's paused flag and the tracker; a step
\* without a _flush() sent nothing.
WatchStep(isPaused, T, flushed) ==
    /\ tracker' = IF flushed THEN T ELSE [T EXCEPT !.sent = NoTracker.sent]
    /\ CommitEngine([Cur EXCEPT !.paused = isPaused])
    /\ UNCHANGED <<settingsVars, videoSrc, calls, submission, lastEvent, kuromoji>>

\* bind().
Bind ==
    /\ ~tracker.bound
    /\ tracker.checks < MaxChecks
    /\ LET T == [tracker EXCEPT !.bound = TRUE]
       IN WatchStep(paused, IF ~paused THEN CheckAndStartTracking(T) ELSE T, FALSE)
    /\ UNCHANGED now

\* unbind().
Unbind ==
    /\ tracker.bound
    /\ WatchStep(paused, [Flush(StopTracking(tracker, now * MsPerSecond))
                             EXCEPT !.flushInterval = 0, !.bound = FALSE], TRUE)
    /\ UNCHANGED now

\* The video starts playing: the play listener runs _onPlay().
VideoPlay ==
    /\ paused
    /\ tracker.checks < MaxChecks
    /\ WatchStep(FALSE, IF tracker.bound THEN CheckAndStartTracking(tracker) ELSE tracker,
                 FALSE)
    /\ UNCHANGED now

\* The video pauses: the pause listener runs _onPause().
VideoPause ==
    /\ ~paused
    /\ WatchStep(TRUE, IF tracker.bound
                       THEN Flush(StopTracking(tracker, now * MsPerSecond))
                       ELSE tracker, tracker.bound)
    /\ UNCHANGED now

\* onSubtitlesLoaded(), after the host loaded a subtitle file.
OnSubtitlesLoaded ==
    /\ tracker.checks < MaxChecks
    /\ LET T == [Flush(tracker) EXCEPT !.subtitleCount = 1]
       IN WatchStep(paused, IF ~paused THEN CheckAndStartTracking(T) ELSE T, TRUE)
    /\ UNCHANGED now

\* onSubtitlesUnloaded(), after the host dropped the subtitles.
OnSubtitlesUnloaded ==
    /\ tracker.subtitleCount # 0
    /\ WatchStep(paused, [Flush(StopTracking(tracker, now * MsPerSecond))
                             EXCEPT !.subtitleCount = 0], TRUE)
    /\ UNCHANGED now

\* settings.get answers a pending _shouldTrack(): tracking starts when watch
\* time tracking is enabled or the read threw.
SettingsChecked(answer) ==
    /\ tracker.checks > 0
    /\ LET T == [tracker EXCEPT !.checks = @ - 1]
       IN WatchStep(paused, IF answer = "disabled" THEN T
                            ELSE StartTracking(T, now * MsPerSecond), FALSE)
    /\ UNCHANGED now

\* The interval timer of _startTracking fires.
IntervalFires ==
    /\ tracker.flushInterval # 0
    /\ now * MsPerSecond >= tracker.flushInterval
    /\ WatchStep(paused, [Flush(AccumulateTime(tracker, now * MsPerSecond))
                             EXCEPT !.flushInterval = @ + FlushIntervalMs], TRUE)
    /\ UNCHANGED now

\* A second passes; a timer that is due fires first.
WatchTick ==
    /\ now < MaxWatchNow
    /\ tracker.flushInterval = 0 \/ now * MsPerSecond < tracker.flushInterval
    /\ now' = now + 1
    /\ WatchStep(paused, [tracker EXCEPT !.pausedMs =
                             IF tracker.isTracking /\ paused THEN @ + MsPerSecond ELSE @],
                 FALSE)

(***************************************************************************)
(* Specifications.                                                         *)
(***************************************************************************)
DeckLists == { <<>>, <<[enabled |-> FALSE]>>, <<[enabled |-> TRUE]>> }

\* Cadence settings: the tokenizer is created by the first test.
CadenceSettings ==
    [frequency : {2}, lineSelectionStrategy : {"random"}, rateLimitSeconds : {1},
     trackResults : {FALSE}, studyDecks : {<<>>}, ankiApi : {FALSE}, tokenizer : {FALSE}]

\* Knowledge-driven settings, after an updateSettings that may have found no
\* tokenizer, no Anki connection or no deck.
KnowledgeSettings ==
    [frequency : {2}, lineSelectionStrategy : {"prioritize_unknown"}, rateLimitSeconds : {1},
     trackResults : {TRUE}, studyDecks : DeckLists, ankiApi : BOOLEAN, tokenizer : BOOLEAN]

\* The state after construction and the first updateSettings, on video src.
InitEngine(settings, src) ==
    /\ \E st \in settings :
         /\ frequency = st.frequency
         /\ lineSelectionStrategy = st.lineSelectionStrategy
         /\ rateLimitSeconds = st.rateLimitSeconds
         /\ trackResults = st.trackResults
         /\ studyDecks = st.studyDecks
         /\ ankiApi = st.ankiApi
         /\ tokenizer = st.tokenizer
    /\ enabled = FALSE
    /\ lineCount = 0
    /\ currentSubtitle = NoSubtitle
    /\ currentSession = NoSession
    /\ lineStatusCache = [v \in AllVideos |-> [l \in Lines |-> NoInfo]]
    /\ testLineIndices = {}
    /\ currentDisplayState = NoState
    /\ testCompleted = FALSE
    /\ answerSubmitted = FALSE
    /\ overlayVisible = FALSE
    /\ overlayState = NoState
    /\ videoSrc = src
    /\ forceHideSubtitles = FALSE
    /\ forceHide = FALSE
    /\ paused = FALSE
    /\ position = 0
    /\ frameLoops = {}
    /\ now = 1
    /\ calls = EmptyBag
    /\ submission = NoSubmission
    /\ lastEvent = Event("init")
    /\ sessionShows = [l \in Lines |-> 0]
    /\ shownTest = NoTest
    /\ kuromoji = NoKuromoji
    /\ tracker = NoTracker

\* The steps of the engine on one video.
Subtitles ==
    \/ \E idx \in Lines : OnSubtitleShown(idx)
    \/ \E c \in BagToSet(calls) : \E outcome \in {"created", "failed", "kept"} : InitDone(c, outcome)
    \/ \E c \in BagToSet(calls) : \E out \in TokenizeOutcomes(c.src, c.index) : TokenizeDone(c, out)

Host ==
    \/ \E textBlank, hasIndex \in BOOLEAN : OnSubtitleShownIgnored(textBlank, hasIndex)
    \/ HideTest
    \/ \E value \in BOOLEAN : Enable(value)
    \/ Tick

\* The engine on one video, under every setting.
Init == InitEngine(CadenceSettings \cup KnowledgeSettings, "a")

Next ==
    \/ Subtitles
    \/ \E c \in BagToSet(calls) : \E out \in TokenizeOutcomes(c.src, c.index) :
          \E lookups \in PlainLookups(Len(TestableTokens(out))) : ScoreDone(c, out, lookups)
    \/ \E answers \in AnswersFor(overlayState, PlainAnswers) : OverlaySubmit(answers)
    \/ \E out \in PlainTokenizeOutcomes(NextAnswer) : SubmitTokenizeDone(out)
    \/ \E failed \in PlainSaveOutcomes(Len(submission.blankedIndices)) : SubmitSaveDone(failed)
    \/ OverlayContinue
    \/ Host

Spec == Init /\ [][Next]_vars

\* Knowledge-driven settings with tokenizer, Anki connection and an enabled
\* deck, results not tracked.
ReadySettings ==
    [frequency : {2}, lineSelectionStrategy : {"prioritize_unknown"}, rateLimitSeconds : {1},
     trackResults : {FALSE}, studyDecks : {<<[enabled |-> TRUE]>>}, ankiApi : {TRUE},
     tokenizer : {TRUE}]

\* The engine, under either strategy, while the page switches between videos.
InitSource == InitEngine(CadenceSettings \cup ReadySettings, "a")

NextSource ==
    \/ Subtitles
    \/ \E c \in BagToSet(calls) : \E out \in TokenizeOutcomes(c.src, c.index) :
          \E lookups \in PlainLookups(Len(TestableTokens(out))) : ScoreDone(c, out, lookups)
    \/ HideTest
    \/ \E answers \in AnswersFor(overlayState, PlainAnswers) : OverlaySubmit(answers)
    \/ \E out \in PlainTokenizeOutcomes(NextAnswer) : SubmitTokenizeDone(out)
    \/ OverlayContinue
    \/ Enable(TRUE)
    \/ \E src \in Videos : VideoSrcChange(src)

SpecSource == InitSource /\ [][NextSource]_vars

\* The cadence engine on the video with long lines when subtitles arrive
\* while earlier calls are suspended.
InitOverlap == InitEngine(CadenceSettings, LongVideo)

NextOverlap ==
    \/ Subtitles
    \/ \E idx \in Lines : OnSubtitleShownDuring(idx)
    \/ \E answers \in AnswersFor(overlayState, PlainAnswers) : OverlaySubmit(answers)
    \/ \E out \in PlainTokenizeOutcomes(NextAnswer) : SubmitTokenizeDone(out)
    \/ OverlayContinue
    \/ Enable(TRUE)

SpecOverlap == InitOverlap /\ [][NextOverlap]_vars

\* The knowledge-driven engine on the video with long lines, under every
\* outcome of the lookups.
InitScoring == InitEngine(ReadySettings, LongVideo)

NextScoring ==
    \/ \E idx \in Lines : OnSubtitleShown(idx)
    \/ \E c \in BagToSet(calls) : \E out \in TokenizeOutcomes(c.src, c.index) : TokenizeDone(c, out)
    \/ \E c \in BagToSet(calls) : \E out \in TokenizeOutcomes(c.src, c.index) :
          \E lookups \in AllLookups(Len(TestableTokens(out))) : ScoreDone(c, out, lookups)
    \/ \E answers \in AnswersFor(overlayState, PlainAnswers) : OverlaySubmit(answers)
    \/ \E out \in PlainTokenizeOutcomes(NextAnswer) : SubmitTokenizeDone(out)
    \/ OverlayContinue
    \/ Enable(TRUE)
    \/ Tick

SpecScoring == InitScoring /\ [][NextScoring]_vars

\* The cadence engine with the player: the video plays, the user seeks,
\* replays and resumes, the frames run.
InitPlayback == InitEngine(CadenceSettings, "a")

NextPlayback ==
    \/ \E idx \in Lines : SubtitleReached(idx)
    \/ \E c \in BagToSet(calls) : \E outcome \in {"created", "failed", "kept"} : InitDone(c, outcome)
    \/ \E c \in BagToSet(calls) : \E out \in TokenizeOutcomes(c.src, c.index) : TokenizeDone(c, out)
    \/ \E answers \in AnswersFor(overlayState, PlainAnswers) : OverlaySubmit(answers)
    \/ \E out \in PlainTokenizeOutcomes(NextAnswer) : SubmitTokenizeDone(out)
    \/ OverlayContinue
    \/ OverlayReplay
    \/ Frame
    \/ Advance
    \/ \E l \in Lines : Seek(l)
    \/ HostPlay
    \/ HideTest
    \/ \E value \in BOOLEAN : Enable(value)
    \/ SecondPasses

SpecPlayback == InitPlayback /\ [][NextPlayback]_vars

\* The tests of the video with long lines, answered in every way.
AnswerSettings ==
    [frequency : {2}, lineSelectionStrategy : {"random"}, rateLimitSeconds : {1},
     trackResults : BOOLEAN, studyDecks : {<<>>}, ankiApi : {FALSE}, tokenizer : {FALSE}]

InitAnswers == InitEngine(AnswerSettings, LongVideo)

NextAnswers ==
    \/ Subtitles
    \/ \E answers \in AnswersFor(overlayState, AllAnswers) : OverlaySubmit(answers)
    \/ \E out \in AnswerTokenizeOutcomes(NextAnswer) : SubmitTokenizeDone(out)
    \/ \E failed \in AllSaveOutcomes(Len(submission.blankedIndices)) : SubmitSaveDone(failed)
    \/ OverlayContinue
    \/ Enable(TRUE)

SpecAnswers == InitAnswers /\ [][NextAnswers]_vars

\* The tests of the video with long lines when the user goes on typing and
\* submitting while a submission is validated and saved.
NextResubmit ==
    \/ Subtitles
    \/ \E answers \in AnswersFor(overlayState, PlainAnswers) : OverlaySubmit(answers)
    \/ \E answers \in AnswersFor(overlayState, PlainAnswers) : OverlaySubmitDuring(answers)
    \/ \E out \in PlainTokenizeOutcomes(NextAnswer) : SubmitTokenizeDone(out)
    \/ \E failed \in PlainSaveOutcomes(Len(submission.blankedIndices)) : SubmitSaveDone(failed)
    \/ OverlayContinue
    \/ Enable(TRUE)

SpecResubmit == InitAnswers /\ [][NextResubmit]_vars

\* The tokenizer service under tokenize and dispose calls. The event loops run
\* every task that is ready: worker messages, responses and continuations are
\* not postponed forever.
NextTokenizer ==
    \/ \E text \in TokenizerTexts : Tokenize(text)
    \/ TokenizerProgress
    \/ Dispose

SpecTokenizer ==
    InitEngine(CadenceSettings, "a") /\ [][NextTokenizer]_vars /\ WF_vars(TokenizerProgress)

\* The watch-time tracker under play and pause events, subtitle loads, settings
\* answers and its timer.
NextWatchTime ==
    \/ Bind
    \/ Unbind
    \/ VideoPlay
    \/ VideoPause
    \/ OnSubtitlesLoaded
    \/ OnSubtitlesUnloaded
    \/ \E answer \in {"enabled", "disabled", "threw"} : SettingsChecked(answer)
    \/ IntervalFires
    \/ WatchTick

SpecWatchTime == InitEngine(CadenceSettings, "a") /\ [][NextWatchTime]_vars

(***************************************************************************)
(* Properties.                                                             *)
(***************************************************************************)
\* The last step was an onSubtitleShown call that passed its entry guards;
\* lineCount is then the 1-based count of that call.
Shown == lastEvent.op = "onSubtitleShown"

\* The last step ended a submission by showing its result.
ResultShown ==
    /\ lastEvent.op \in {"submit", "submitTokenizeDone", "submitSaveDone"}
    /\ lastEvent.returned = "done"

\* The session has shown a card less than rateLimitSeconds ago.
RateLimited ==
    /\ currentSession.lastCardTime # 0
    /\ now * MsPerSecond - currentSession.lastCardTime < rateLimitSeconds * MsPerSecond

Studied(idx) == idx \in currentSession.studiedLineIndices

\* A string of white space only (the empty string included).
IsBlank(a) == \A k \in DOMAIN a : a[k] \in WhiteSpace

\* C1 as the specification states it: under the cadence strategy a call
\* triggers a test exactly when the running line count is a multiple of the
\* frequency and the line is not already passed or failed.
C1_CadenceExactly ==
    (lineSelectionStrategy = "random" /\ Shown) =>
        ((lastEvent.decided = "yes") <=>
            (lineCount % frequency = 0 /\ lastEvent.status \notin {"pass", "fail"}))

\* C1, amended: under the cadence strategy a call triggers a test exactly when
\* the line's cached status is incomplete, or the line has no cached status,
\* is not among the studied lines of the session, the rate limit is satisfied
\* and the running line count is a multiple of the frequency.
C1_CadenceWithRetryAndRateLimit ==
    (lineSelectionStrategy = "random" /\ Shown) =>
        ((lastEvent.decided = "yes") <=>
            \/ lastEvent.status = "incomplete"
            \/ /\ lastEvent.status = "undefined"
               /\ ~Studied(lastEvent.index)
               /\ ~RateLimited
               /\ lineCount % frequency = 0)

\* A fresh line is chosen at the second multiple of the frequency.
C1_SecondMultipleTested ==
    /\ lineSelectionStrategy = "random" /\ Shown
    /\ lineCount = 2 * frequency
    /\ lastEvent.status = "undefined"
    /\ lastEvent.decided = "yes"

\* C2 as the specification states it: within one session no line has its
\* test displayed twice.
C2_NeverDisplayedTwice == \A l \in Lines : sessionShows[l] <= 1

\* C2, amended: a line is among the studied lines of the session exactly
\* from the first display of its test in that session on, and a call for a
\* studied line triggers a test only when the line's cached status is
\* incomplete (the retry of a dismissed test).
C2_StudiedFromFirstDisplay ==
    /\ \A l \in Lines : Studied(l) <=> sessionShows[l] >= 1
    /\ (Shown /\ Studied(lastEvent.index) /\ lastEvent.decided # "no")
          => lastEvent.status = "incomplete"

\* A dismissed test is displayed a second time in the same session.
C2_RetryDisplayed ==
    /\ Shown /\ lastEvent.returned = "true"
    /\ sessionShows[lastEvent.index] = 2
    /\ Studied(lastEvent.index)

C4_RateLimit ==
    (Shown /\ lastEvent.status = "undefined") =>
        /\ RateLimited => lastEvent.decided = "no"
        /\ (currentSession.lastCardTime = 0 /\ ~Studied(lastEvent.index)) =>
              lastEvent.decided =
                 (IF lineSelectionStrategy = "random"
                  THEN (IF lineCount % frequency = 0 THEN "yes" ELSE "no")
                  ELSE (IF tokenizer /\ ankiApi /\ Len(studyDecks) > 0 THEN "pending" ELSE "no"))

\* The rate limit declines a fresh line at a multiple of the frequency.
C4_MultipleRefused ==
    /\ Shown /\ lastEvent.status = "undefined" /\ lastEvent.decided = "no"
    /\ lineSelectionStrategy = "random"
    /\ lineCount % frequency = 0
    /\ ~Studied(lastEvent.index)
    /\ RateLimited

\* C5 as the specification states it: under the knowledge-driven strategy no
\* test is triggered for a line without cached status while the tokenizer or
\* the Anki connection is missing or no deck of the list is enabled.
C5_NoTestWithoutSources ==
    ( /\ lineSelectionStrategy = "prioritize_unknown"
      /\ lastEvent.op \in {"onSubtitleShown", "scoreDone"}
      /\ lastEvent.status = "undefined"
      /\ \/ ~tokenizer
         \/ ~ankiApi
         \/ ~\E i \in DOMAIN studyDecks : studyDecks[i].enabled )
    => lastEvent.decided # "yes"

\* The blanked token and the trimmed answer of blank i of a submission.
BlankToken(sub, i) == sub.tokens[sub.blankedIndices[i]]
BlankAnswer(sub, i) == UserAnswer(sub.answers, i)

\* C6: when every answer of a submission is the exact surface text of its
\* blanked token, every per-blank result is true and the result shown is
\* correct, whatever the tokenizer may return.
C6_RoundTrip ==
    ResultShown =>
        LET sub == lastEvent.submitted
        IN (\A i \in DOMAIN sub.blankedIndices : sub.answers[i] = BlankToken(sub, i).text)
           => /\ DOMAIN sub.answerResults = DOMAIN sub.blankedIndices
              /\ \A i \in DOMAIN sub.answerResults : sub.answerResults[i]
              /\ currentDisplayState.resultCorrect
              /\ currentDisplayState.answerResults = sub.answerResults
              /\ overlayState.defined => overlayState.resultCorrect

\* The surface texts of several blanks were submitted and judged.
C6_TextsSubmitted ==
    /\ ResultShown
    /\ Len(lastEvent.submitted.blankedIndices) >= 2
    /\ \A i \in DOMAIN lastEvent.submitted.blankedIndices :
          lastEvent.submitted.answers[i] = BlankToken(lastEvent.submitted, i).text
    /\ currentDisplayState.resultCorrect

\* The reading of a token with its katakana turned into hiragana, or its
\* text so turned when it has no reading.
FoldedReading(token) ==
    LET r == IF token.reading # <<>> THEN token.reading ELSE token.text
    IN [k \in DOMAIN r |-> IF r[k] \in KatakanaFirst..KatakanaLast THEN r[k] - KanaOffset ELSE r[k]]

\* C7: an answer equal to the folded reading of its blanked token (the folded
\* text when the token has no reading) is judged correct for that blank, and
\* the tokenizer is not called for it.
C7_FoldedReadingAccepted ==
    ResultShown =>
        LET sub == lastEvent.submitted
        IN \A i \in DOMAIN sub.blankedIndices :
              sub.answers[i] = FoldedReading(BlankToken(sub, i))
              => sub.answerResults[i] /\ ~sub.tokenizerLog[i].called

\* A hiragana reading that differs from the text was accepted, for a token
\* with a reading next to one without.
C7_HiraganaReadingAccepted ==
    /\ ResultShown
    /\ \E i \in DOMAIN lastEvent.submitted.blankedIndices :
          /\ lastEvent.submitted.answers[i] = FoldedReading(BlankToken(lastEvent.submitted, i))
          /\ lastEvent.submitted.answers[i] # BlankToken(lastEvent.submitted, i).text
          /\ lastEvent.submitted.answers[i] # BlankToken(lastEvent.submitted, i).reading
          /\ lastEvent.submitted.answerResults[i]
    /\ \E j \in DOMAIN lastEvent.submitted.blankedIndices :
          /\ BlankToken(lastEvent.submitted, j).reading = <<>>
          /\ lastEvent.submitted.answers[j] = FoldedReading(BlankToken(lastEvent.submitted, j))

\* C8: the result of each blank is the disjunction of the three tiers applied
\* to that blank's token, answer and tokenizer result (the tokenizer being
\* called only when the first two tiers miss), and the result shown is the
\* conjunction of the results of all blanks; hence equal inputs give equal
\* results.
C8_ThreeTiersPerBlank ==
    ResultShown =>
        LET sub == lastEvent.submitted
            Direct(i) == \/ BlankAnswer(sub, i) = Trim(BlankToken(sub, i).text)
                         \/ BlankAnswer(sub, i) = FoldedReading(BlankToken(sub, i))
            Retokenized(i) ==
                /\ sub.tokenizerLog[i].called
                /\ ~sub.tokenizerLog[i].threw
                /\ UserReading(sub.tokenizerLog[i].groups) = FoldedReading(BlankToken(sub, i))
        IN /\ DOMAIN sub.answerResults = DOMAIN sub.blankedIndices
           /\ DOMAIN sub.tokenizerLog = DOMAIN sub.blankedIndices
           /\ \A i \in DOMAIN sub.blankedIndices :
                 /\ sub.tokenizerLog[i].called => ~Direct(i)
                 /\ sub.answerResults[i] <=> (Direct(i) \/ Retokenized(i))
           /\ currentDisplayState.answerResults = sub.answerResults
           /\ currentDisplayState.resultCorrect <=>
                 \A i \in DOMAIN sub.blankedIndices : sub.answerResults[i]

\* Three blanks were judged, one right by the reading of the re-tokenized
\* answer, one wrong.
C8_MixedResult ==
    /\ ResultShown
    /\ Len(lastEvent.submitted.blankedIndices) = 3
    /\ \E i, j \in DOMAIN lastEvent.submitted.blankedIndices :
          /\ lastEvent.submitted.answerResults[i]
          /\ lastEvent.submitted.tokenizerLog[i].called
          /\ ~lastEvent.submitted.answerResults[j]
    /\ ~currentDisplayState.resultCorrect

\* C9: a submission with an empty or white-space-only answer is refused: no
\* submission starts (no blank is judged, no record is saved), the cache, the
\* answer-submitted and test-completed flags and the phase of the display
\* state stay as they are and the overlay stays in its input phase; and a
\* result is shown only with a result for every blank, the input phase
\* lasting until then.
C9_BlankAnswerRefused ==
    [][ /\ ( /\ lastEvent'.op = "submit"
             /\ \E i \in DOMAIN overlayState'.userAnswers : IsBlank(overlayState'.userAnswers[i]) )
           => /\ lastEvent'.returned = "refused"
              /\ UNCHANGED <<submission, lineStatusCache, answerSubmitted, testCompleted>>
              /\ currentDisplayState'.showingResult = currentDisplayState.showingResult
              /\ currentDisplayState'.answerResults = currentDisplayState.answerResults
              /\ submission'.pc = "idle"
              /\ ~overlayState'.showingResult
        /\ ( /\ lastEvent'.op \in {"submit", "submitTokenizeDone", "submitSaveDone"}
             /\ lastEvent'.returned = "done" )
           => /\ Len(lastEvent'.submitted.answerResults) = Len(lastEvent'.submitted.blankedIndices)
              /\ ~currentDisplayState.showingResult
              /\ currentDisplayState'.showingResult
        /\ ( /\ lastEvent'.op \in {"submit", "submitTokenizeDone"}
             /\ lastEvent'.returned = "pending" )
           => ~currentDisplayState'.showingResult /\ ~overlayState'.showingResult
      ]_vars

\* A submission with one answer typed and one of white space was refused.
C9_PartlyBlankRefused ==
    /\ lastEvent.op = "submit" /\ lastEvent.returned = "refused"
    /\ Len(overlayState.userAnswers) >= 2
    /\ \E i, j \in DOMAIN overlayState.userAnswers :
          /\ ~IsBlank(overlayState.userAnswers[i])
          /\ overlayState.userAnswers[j] = <<Ch.sp>>
    /\ ~overlayState.showingResult /\ ~currentDisplayState.showingResult
    /\ ~answerSubmitted /\ submission.pc = "idle"

\* C10 as the specification states it: after Continue on a shown result the
\* cached status of the tested line is pass when every blank was judged
\* correct and fail otherwise, its pending marker is cleared, the forced
\* hiding of subtitles and mobile overlay is off, the overlay is hidden and
\* the completion callback was given the same verdict before playback resumed.
C10_ContinueFinalizes ==
    lastEvent.op = "continue" =>
        /\ lineStatusCache[lastEvent.src][lastEvent.index].status =
              (IF lastEvent.passed THEN "pass" ELSE "fail")
        /\ lastEvent.index \notin testLineIndices
        /\ ~forceHideSubtitles /\ ~forceHide
        /\ ~overlayVisible
        /\ lastEvent.returned = "done"

\* C11: a call that passes the entry guards for a line whose cached status is
\* incomplete decides to test it, at once or, under the knowledge-driven
\* strategy, when the scoring it waits for has ended, whatever the line
\* count, the rate limit, the studied lines and the score are; the line is
\* then marked as pending test line and is the current subtitle.
C11_IncompleteAlwaysRetried ==
    [][ ( lastEvent'.op \in {"onSubtitleShown", "scoreDone"}
          /\ lastEvent'.status = "incomplete" )
        => /\ lastEvent'.decided \in {"yes", "pending"}
           /\ lastEvent'.decided = "pending"
                 => /\ lastEvent'.op = "onSubtitleShown"
                    /\ calls' = calls (+) SetToBag({Call(videoSrc, lastEvent'.index,
                                 lineStatusCache[videoSrc][lastEvent'.index], "score")})
           /\ lastEvent'.decided = "yes"
                 => /\ lastEvent'.index \in testLineIndices'
                    /\ currentSubtitle' = lastEvent'.index
                    /\ tokenizer => ( overlayVisible' /\ lastEvent'.returned = "true"
                                      /\ shownTest'.index = lastEvent'.index )
      ]_vars

\* An incomplete line was retried although its score was below the threshold
\* of a session that had not studied it.
C11_RetriedAfterLowScore ==
    /\ lastEvent.op = "scoreDone" /\ lastEvent.status = "incomplete"
    /\ lastEvent.decided = "yes" /\ lastEvent.returned = "true"
    /\ overlayVisible
    /\ lastEvent.cause = "lowScore"
    /\ sessionShows[lastEvent.index] = 1

\* C12 as the specification states it: when the tokenizer cannot be created or
\* the tokenization of the line throws while its test is prepared, a
\* notification is raised, the pending marker of the line is cleared, no cache
\* entry is created, no overlay is shown and false is returned.
C12_FailureNotified ==
    ( /\ lastEvent.op \in {"initDone", "tokenizeDone"}
      /\ lastEvent.cause \in {"noTokenizer", "threw"} )
    => /\ lastEvent.notified
       /\ lastEvent.index \notin testLineIndices
       /\ lastEvent.status = "undefined"
             => lineStatusCache[lastEvent.src][lastEvent.index].status = "undefined"
       /\ ~overlayVisible
       /\ lastEvent.returned = "false"

\* C13: when the line tokenizes to no token, has no testable token or the
\* selector returns no blank, the call returns false, the pending marker of
\* the line is cleared, and the cache, the session, the overlay and the forced
\* hiding stay as they are, without notification; likewise when scoring finds
\* no testable token in a new line.  A test that is displayed has at least one
\* blank and only testable tokens blanked.
C13_UnusableLineSkipped ==
    [][ /\ ( /\ lastEvent'.op = "tokenizeDone"
             /\ lastEvent'.cause \in {"noTokens", "noTestable", "noBlanks"} )
           => /\ lastEvent'.returned = "false"
              /\ lastEvent'.index \notin testLineIndices'
              /\ ~lastEvent'.notified
              /\ UNCHANGED <<lineStatusCache, currentSession, overlayVisible, overlayState,
                             currentDisplayState, forceHideSubtitles, forceHide>>
        /\ ( /\ lastEvent'.op = "scoreDone" /\ lastEvent'.status = "undefined"
             /\ lastEvent'.cause = "noTestable" )
           => /\ lastEvent'.returned = "false"
              /\ ~lastEvent'.notified
              /\ UNCHANGED <<lineStatusCache, currentSession, overlayVisible, testLineIndices>>
        /\ ( lastEvent'.op = "tokenizeDone" /\ lastEvent'.returned = "true" )
           => /\ overlayState'.blankedIndices # <<>>
              /\ \A i \in DOMAIN overlayState'.blankedIndices :
                    IsTestable(overlayState'.tokens[overlayState'.blankedIndices[i]])
      ]_vars

\* The selector returned no blank for a line with testable tokens, and the
\* line was left without cache entry and without marker.
C13_NoBlankSkipped ==
    /\ lastEvent.op = "tokenizeDone" /\ lastEvent.cause = "noBlanks"
    /\ lastEvent.returned = "false"
    /\ lineStatusCache[lastEvent.src][lastEvent.index].status = "undefined"
    /\ lastEvent.index \notin testLineIndices
    /\ ~overlayVisible

\* C14: a call made while a test is showing, while the engine is disabled,
\* with a blank text or without index returns false and leaves the line
\* counter, the cache, the session and the pending markers as they are; a call
\* gets past the entry only with no test showing and the engine enabled, and
\* then the line counter grows by exactly one.
C14_IgnoredCallChangesNothing ==
    [][ /\ lastEvent'.op = "onSubtitleShownIgnored"
           => /\ lastEvent'.returned = "false"
              /\ lastEvent'.cause = "showing" => overlayVisible
              /\ lastEvent'.cause = "disabled" => ~enabled /\ ~overlayVisible
              /\ lastEvent'.cause \in {"showing", "disabled", "blankText", "noIndex"}
              /\ UNCHANGED <<lineCount, lineStatusCache, currentSession, testLineIndices,
                             calls, overlayVisible>>
        /\ lastEvent'.op = "onSubtitleShown"
           => /\ ~overlayVisible /\ enabled
              /\ lineCount' = lineCount + 1
      ]_vars

\* A call with a blank text was ignored although the engine was enabled, no
\* test was showing and lines had been counted.
C14_BlankTextIgnored ==
    /\ lastEvent.op = "onSubtitleShownIgnored" /\ lastEvent.cause = "blankText"
    /\ enabled /\ ~overlayVisible
    /\ lineCount >= 1
    /\ lastEvent.returned = "false"

\* C15 as the specification states it: whenever no test overlay is visible
\* and no call or submission is in flight, the forced hiding of subtitles is
\* off and no line is marked as pending test line.
C15_SubtitlesRestored ==
    (~overlayVisible /\ calls = EmptyBag /\ submission.pc = "idle")
    => (~forceHideSubtitles /\ testLineIndices = {})

\* A step reads or writes the session: a call that gets to _shouldTestLine,
\* or a test that is displayed.
SessionAccessed ==
    \/ lastEvent'.op = "onSubtitleShown" /\ lastEvent'.status \notin {"pass", "fail"}
    \/ lastEvent'.returned = "true"

\* C16: the session changes only when it is accessed and is then a session
\* of the video now playing; accessed after the source changed it is a fresh
\* session of the new source (holding at most the card this very step
\* displayed); while the source is the one of the session, nothing recorded
\* in the session is ever taken back.
C16_SessionScopedToSource ==
    [][ /\ currentSession' # currentSession
           => SessionAccessed /\ currentSession'.videoSrc = videoSrc
        /\ (SessionAccessed /\ currentSession.videoSrc # videoSrc)
           => /\ currentSession'.videoSrc = videoSrc
              /\ currentSession'.studiedLineIndices \subseteq {lastEvent'.index}
              /\ currentSession'.cardsShownCount =
                    Cardinality(currentSession'.studiedLineIndices)
              /\ currentSession'.cardsShownCount = 0 => currentSession'.lastCardTime = 0
              /\ currentSession'.cardsShownCount = 1 => lastEvent'.returned = "true"
        /\ currentSession.videoSrc = videoSrc
           => /\ currentSession'.videoSrc = videoSrc
              /\ currentSession.studiedLineIndices \subseteq currentSession'.studiedLineIndices
              /\ currentSession'.cardsShownCount >= currentSession.cardsShownCount
              /\ currentSession'.lastCardTime >= currentSession.lastCardTime
      ]_vars

\* After tests on video a the first call on video b got a fresh session.
C16_FreshSessionOnNewSource ==
    /\ Shown /\ videoSrc = "b"
    /\ currentSession = [videoSrc |-> "b", studiedLineIndices |-> {},
                         cardsShownCount |-> 0, lastCardTime |-> 0]
    /\ \E l \in Lines : lineStatusCache["a"][l].status # "undefined"

\* C17 as the specification states it: the cached status of a line changes
\* only from absent to incomplete and from incomplete to pass or fail, and
\* only in a step that is about that line of that video (its call, its
\* display, the dismissal or the Continue of its test).
C17_StatusOrderedPerLine ==
    [][ \A v \in AllVideos, l \in Lines :
           lineStatusCache'[v][l].status # lineStatusCache[v][l].status
           => /\ \/ /\ lineStatusCache[v][l].status = "undefined"
                    /\ lineStatusCache'[v][l].status = "incomplete"
                 \/ /\ lineStatusCache[v][l].status = "incomplete"
                    /\ lineStatusCache'[v][l].status \in {"pass", "fail"}
              /\ lastEvent'.index = l /\ lastEvent'.src = v
      ]_vars

\* C18 as the specification states it: a test is displayed only while none is
\* showing, the test the overlay shows is the one of the current subtitle,
\* and Continue finalizes the status of the line whose test was shown.
C18_NoPipelining ==
    [][ /\ lastEvent'.returned = "true" => ~overlayVisible
        /\ overlayVisible' => currentSubtitle' = shownTest'.index
        /\ lastEvent'.op = "continue"
              => lineStatusCache'[shownTest.src][shownTest.index].status \in {"pass", "fail"}
      ]_vars

\* C19 as the specification states it: when the test was dismissed while a
\* tokenization or a save of its evaluation was in flight, the step that ends
\* the wait leaves the overlay hidden, the display state absent, the
\* test-completed and answer-submitted flags unset and the cache unchanged.
C19_DismissedStepDiscarded ==
    [][ ( /\ lastEvent'.op \in {"tokenizeDone", "submitTokenizeDone", "submitSaveDone"}
          /\ currentSubtitle = NoSubtitle )
        => /\ ~overlayVisible'
           /\ ~currentDisplayState'.defined
           /\ ~testCompleted' /\ ~answerSubmitted'
           /\ lineStatusCache' = lineStatusCache
      ]_vars

\* C20 as the specification states it: after hide() dismissed the test the
\* overlay was showing, the tested line is no pending test line.
C20_DismissalClearsMarker ==
    (lastEvent.op = "hide" /\ lastEvent.index # NoSubtitle)
    => lastEvent.index \notin testLineIndices

\* The last step showed the result of a submission whose records were saved.
SavedResultShown == lastEvent.op = "submitSaveDone" /\ lastEvent.returned = "done"

\* C21: whichever writes of a tracked submission are rejected, every write is
\* attempted exactly once (one save per blank, then the batch) and the step
\* that ends the saving shows the result with the correctness of every blank,
\* the overlay then offering Continue.
C21_SaveFailureDoesNotBlock ==
    SavedResultShown =>
        LET sub == lastEvent.submitted
        IN /\ Len(sub.writes) = Len(sub.blankedIndices) + 1
           /\ \A i \in DOMAIN sub.blankedIndices :
                 sub.writes[i].call = "save" /\ sub.writes[i].record = StudyRecord(sub, i)
           /\ sub.writes[Len(sub.writes)].call = "recordAttemptsBatch"
           /\ currentDisplayState.showingResult
           /\ currentDisplayState.answerResults = sub.answerResults
           /\ Len(sub.answerResults) = Len(sub.blankedIndices)
           /\ submission.pc = "idle"
           /\ overlayVisible => (overlayState.showingResult /\ ENABLED OverlayContinue)

\* The first of several saves was rejected, and so was the batch; the result
\* is shown.
C21_RejectedWritesResultShown ==
    /\ SavedResultShown
    /\ Len(lastEvent.submitted.blankedIndices) >= 2
    /\ lastEvent.submitted.writes[1].failed
    /\ lastEvent.submitted.writes[Len(lastEvent.submitted.writes)].failed
    /\ overlayVisible /\ overlayState.showingResult

\* C24: with result tracking on, a result is shown only by the step that ends
\* the saving, and the submission then made one save per blank, in the order
\* of the blanks and with the result of that blank, followed by one batch of
\* one tuple per blank in the same order; without tracking nothing is written.
C24_OneRecordPerBlank ==
    ResultShown =>
        LET sub == lastEvent.submitted
            n == Len(sub.blankedIndices)
        IN IF trackResults
           THEN /\ lastEvent.op = "submitSaveDone"
                /\ Len(sub.writes) = n + 1
                /\ \A i \in 1..n :
                      /\ sub.writes[i].call = "save"
                      /\ sub.writes[i].record.surfaceForm = BlankToken(sub, i).text
                      /\ sub.writes[i].record.result =
                            (IF sub.answerResults[i] THEN "correct" ELSE "incorrect")
                /\ sub.writes[n + 1].call = "recordAttemptsBatch"
                /\ Len(sub.writes[n + 1].attempts) = n
                /\ \A i \in 1..n :
                      /\ sub.writes[n + 1].attempts[i].lemma = BlankToken(sub, i).text
                      /\ sub.writes[n + 1].attempts[i].reading = FoldedReading(BlankToken(sub, i))
                      /\ sub.writes[n + 1].attempts[i].success = sub.answerResults[i]
           ELSE sub.writes = <<>>

\* Three blanks, one answered wrongly, were saved and batched.
C24_MixedRecordsSaved ==
    /\ SavedResultShown /\ trackResults
    /\ Len(lastEvent.submitted.blankedIndices) = 3
    /\ Len(lastEvent.submitted.writes) = 4
    /\ \E i, j \in 1..3 :
          /\ lastEvent.submitted.writes[i].record.result = "correct"
          /\ lastEvent.submitted.writes[j].record.result = "incorrect"

\* The last step ended the scoring of a line without cached status whose
\* tokenization had given testable tokens.
LineScored ==
    /\ lastEvent.op = "scoreDone" /\ lastEvent.status = "undefined"
    /\ lastEvent.cause \notin {"threw", "noTestable"}

\* The sum of the priorities of the tokens from position p on that are no
\* symbols, have non-blank text and a word type that is absent or KNOWN, the
\* k-th of them with the k-th lookups, a rejected lookup counting as
\* uncollected or as no statistics.
RECURSIVE PrioritySum(_, _, _, _)
PrioritySum(tokens, lookups, p, k) ==
    IF p > Len(tokens) THEN 0
    ELSE IF /\ tokens[p].pos # "kigou"
            /\ ~IsBlank(tokens[p].text)
            /\ tokens[p].wordType # "UNKNOWN"
         THEN CalculatePriority(IF lookups[k].anki = "threw" THEN "uncollected" ELSE lookups[k].anki,
                                IF lookups[k].stats = "threw" THEN "none" ELSE lookups[k].stats)
              + PrioritySum(tokens, lookups, p + 1, k + 1)
         ELSE PrioritySum(tokens, lookups, p + 1, k)

\* C22 as the specification states it: a rejected status lookup counts as
\* uncollected and a rejected statistics lookup as no statistics, and the
\* decision is the one of the score so obtained from all testable tokens.
C22_LookupFailureDegradesOnly ==
    LineScored =>
        ( lastEvent.decided = "yes" <=>
            ShouldTriggerStudyCard(PrioritySum(Flat(lastEvent.scoring.groups),
                                               lastEvent.scoring.lookups, 1, 1)) )

\* C28: the score of a line is the sum of the priorities of exactly its tokens
\* that are no symbols, have non-blank text and a word type that is absent or
\* KNOWN, the decision is taken from that sum, and a line without such a
\* token is never selected by scoring.
C28_ScoreSumsTestableTokens ==
    lastEvent.op = "scoreDone" /\ lastEvent.status = "undefined" =>
        LET tokens == Flat(lastEvent.scoring.groups)
            sum == PrioritySum(tokens, lastEvent.scoring.lookups, 1, 1)
        IN /\ LineScored /\ ~lastEvent.scoring.threw =>
                /\ lastEvent.scoring.score = sum
                /\ lastEvent.decided = "yes" <=> ShouldTriggerStudyCard(sum)
           /\ (\A p \in DOMAIN tokens : \/ tokens[p].pos = "kigou"
                                         \/ IsBlank(tokens[p].text)
                                         \/ tokens[p].wordType = "UNKNOWN")
                => lastEvent.decided = "no"

\* A line of three scored tokens and a symbol, its tokens of different
\* standing, was selected on the sum of the three priorities.
C28_MixedLineSelected ==
    /\ LineScored /\ ~lastEvent.scoring.threw
    /\ lastEvent.scoring.groups = LineGroups(LongVideo, 1)
    /\ lastEvent.scoring.lookups[1].anki = "mature"
    /\ lastEvent.scoring.lookups[2].anki = "uncollected"
    /\ lastEvent.scoring.lookups[3].stats = "failures"
    /\ lastEvent.scoring.score = 8 + 48 + 16
    /\ lastEvent.decided = "yes"

\* C23: under the knowledge-driven strategy the decision for a line the
\* session has studied, or taken while the rate limit is not satisfied, is
\* refused before any scoring: the call starts no tokenization with its
\* lookups, and a line without an interrupted test is not tested.
C23_RefusedBeforeScoring ==
    [][ ( /\ lineCount' = lineCount + 1
          /\ lineSelectionStrategy = "prioritize_unknown"
          /\ currentSession.videoSrc = videoSrc
          /\ (Studied(lastEvent'.index) \/ RateLimited) )
        => ( /\ \A c \in BagToSet(calls') : c.pc = "score" => c \in BagToSet(calls)
             /\ lastEvent'.status # "incomplete" =>
                   /\ calls' = calls
                   /\ lastEvent'.decided = "no"
                   /\ lastEvent'.returned = "false" ) ]_vars

\* With tokenizer, flashcard source and deck ready, a line without status
\* that the session has not studied was refused inside the rate limit.
C23_RateLimitedLineRefused ==
    /\ Shown /\ lastEvent.cause = "na" /\ lastEvent.status = "undefined"
    /\ lineSelectionStrategy = "prioritize_unknown"
    /\ IsPrioritySelectionReady(Cur)
    /\ RateLimited /\ ~Studied(lastEvent.index)
    /\ lastEvent.decided = "no"
    /\ calls = EmptyBag

\* A decision to test line l is outstanding: a call that decided to test it
\* is preparing its test, or its test is on display.
TestOutstanding(l) ==
    \/ \E c \in BagToSet(calls) : c.index = l /\ c.pc \in {"init", "tokenize"}
    \/ overlayVisible /\ shownTest.index = l

\* C25 as the specification states it: isTestLine(l) is true from the positive
\* decision, before any tokenization, until the test of l is continued or the
\* attempt is aborted, and false for every line without outstanding decision.
C25_MarkedWhileOutstanding ==
    \A l \in Lines : (l \in testLineIndices) <=> TestOutstanding(l)

\* C27 as the specification states it: an entry of the line status cache is
\* never deleted and keeps its tokens and blanked indices for ever.
C27_EntryKeepsItsTest ==
    [][ \A src \in DOMAIN lineStatusCache : \A l \in Lines :
          lineStatusCache[src][l].status # "undefined" =>
            /\ lineStatusCache'[src][l].status # "undefined"
            /\ lineStatusCache'[src][l].tokens = lineStatusCache[src][l].tokens
            /\ lineStatusCache'[src][l].blankedIndices = lineStatusCache[src][l].blankedIndices ]_vars

\* C30 as the specification states it: a line whose status is pass or fail
\* keeps that status, and no test of it is displayed again.
C30_PassFailTerminal ==
    [][ \A src \in DOMAIN lineStatusCache : \A l \in Lines :
          lineStatusCache[src][l].status \in {"pass", "fail"} =>
            /\ lineStatusCache'[src][l].status = lineStatusCache[src][l].status
            /\ ~( /\ overlayVisible' /\ shownTest' = [src |-> src, index |-> l]
                  /\ lastEvent'.returned = "true"
                  /\ lastEvent'.op \in {"onSubtitleShown", "tokenizeDone", "initDone", "scoreDone"} ) ]_vars

\* C26 as the specification states it: while the test of a line is displayed
\* the engine pauses the player only once the position has reached the end
\* of that line.
C26_PausedAtLineEnd ==
    ( /\ lastEvent.op = "frame" /\ lastEvent.returned = "paused"
      /\ overlayVisible /\ shownTest.index # NoSubtitle )
    => position * MsPerSecond >= SubtitleEnd(shownTest.index)

C31_SubmittedTestNotRepeated ==
    [][ ( /\ lastEvent'.op \in {"hide", "disable"}
          /\ overlayVisible /\ overlayState.defined /\ overlayState.showingResult
          /\ answerSubmitted
          /\ shownTest.index # NoSubtitle )
        => lineStatusCache'[shownTest.src][shownTest.index].status \in {"pass", "fail"} ]_vars


\* C34: once the answers of the displayed test are submitted, a further
\* submit or input change starts no validation and no write and leaves the
\* stored answers, the flags and the cache as they are.
C34_OneSubmissionPerTest ==
    [][ ( lastEvent'.op = "submit" /\ answerSubmitted ) =>
          /\ lastEvent'.returned \in {"ignored", "refused"}
          /\ UNCHANGED <<submission, currentDisplayState, answerSubmitted, testCompleted,
                         lineStatusCache>> ]_vars

\* While the records of the first submission were being saved the user
\* typed other answers and submitted them.
C34_SecondSubmitIgnored ==
    /\ lastEvent.op = "submit" /\ lastEvent.returned = "ignored"
    /\ submission.pc = "save"
    /\ overlayState.userAnswers # currentDisplayState.userAnswers
    /\ currentDisplayState.userAnswers = submission.answers


\* C32 as the specification states it: the engine pauses the video only
\* while a test is displayed; the loop of a test that was continued or
\* dismissed pauses nothing.
C32_NoPauseWithoutTest ==
    (lastEvent.op = "frame" /\ lastEvent.returned = "paused") => overlayVisible


\* C33 as the specification states it: no frame callback of Replay reads the
\* end of a current subtitle that has been cleared.
C33_ReplayLoopNeverReadsClearedLine ==
    lastEvent.op = "frame" => lastEvent.cause # "threw"


\* C35 as the specification states it: Continue finalizes the status of the
\* tested line under the video source in which the test was displayed and
\* changes nothing under any other source.
C35_ResultUnderOriginalSource ==
    [][ ( /\ lastEvent'.op = "continue"
          /\ overlayVisible /\ shownTest.index # NoSubtitle
          /\ videoSrc # shownTest.src )
        => ( /\ lineStatusCache'[shownTest.src][shownTest.index].status \in {"pass", "fail"}
             /\ \A v \in DOMAIN lineStatusCache :
                  v # shownTest.src => lineStatusCache'[v] = lineStatusCache[v] ) ]_vars


\* C36: without result tracking a submission never waits for a repository
\* and ends without any write; with and without tracking the result shown is
\* the one of the validation, and Continue gives the line it finalizes the
\* status that goes with that result.
C36_NoWriteWithoutTracking ==
    [][ /\ ~trackResults' => submission'.pc # "save"
        /\ ResultShown' =>
             /\ ~trackResults' => ( /\ lastEvent'.submitted.writes = <<>>
                                    /\ lastEvent'.op # "submitSaveDone" )
             /\ trackResults' => lastEvent'.op = "submitSaveDone"
             /\ overlayState'.showingResult
             /\ overlayState'.answerResults = lastEvent'.submitted.answerResults
             /\ overlayState'.resultCorrect = AllCorrect(lastEvent'.submitted.answerResults)
        /\ ( /\ lastEvent'.op = "continue" /\ lastEvent'.returned = "done"
             /\ GetLineStatus(Cur, currentSubtitle).status # "undefined" ) =>
             lineStatusCache'[videoSrc][currentSubtitle].status =
                (IF overlayState.resultCorrect THEN "pass" ELSE "fail") ]_vars

\* Without tracking, a submission with a right and a wrong answer showed its
\* result and wrote nothing.
C36_UntrackedResultShown ==
    /\ ResultShown /\ ~trackResults
    /\ lastEvent.submitted.writes = <<>>
    /\ AnyCorrect(lastEvent.submitted.answerResults)
    /\ ~AllCorrect(lastEvent.submitted.answerResults)
    /\ overlayState.showingResult /\ ~overlayState.resultCorrect


\* C37: switching the engine off hides the test, sets the line count to 0
\* and removes every pending marker, and leaves the cache and the session as
\* they are; the count stays 0 while the engine is off and when it is switched
\* on again, so that the cadence starts anew.
C37_DisableResetsCadence ==
    [][ /\ lastEvent'.op = "disable" =>
              /\ ~enabled' /\ ~overlayVisible'
              /\ lineCount' = 0
              /\ testLineIndices' = {}
              /\ UNCHANGED <<lineStatusCache, currentSession>>
        /\ ~enabled => lineCount' = lineCount
        /\ lastEvent'.op = "enable" => enabled' /\ lineCount' = 0 ]_vars

\* The engine was switched off while it displayed a test.
C37_DisabledDuringTest ==
    /\ lastEvent.op = "disable" /\ lastEvent.index # NoSubtitle
    /\ lineCount = 0 /\ ~overlayVisible /\ testLineIndices = {}
    /\ lineStatusCache[lastEvent.src][lastEvent.index].status = "incomplete"
    /\ lastEvent.index \in currentSession.studiedLineIndices


C39_EveryTokenizeSettles ==
    \A n \in 1..MaxRequests :
        (Len(kuromoji.requests) >= n)
            ~> (Len(kuromoji.requests) >= n
                /\ kuromoji.requests[n].pc \in {"resolved", "rejected"})


\* C40: the watch-time tracker is never tracking, with its flush timer
\* running, while the video is paused, and no record it sends holds time that
\* elapsed while the video was paused.
C40_TracksOnlyWhilePlaying ==
    /\ paused => (~tracker.isTracking /\ tracker.flushInterval = 0)
    /\ tracker.sent.pausedMs = 0

=============================================================================
